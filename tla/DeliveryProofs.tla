--------------------------- MODULE DeliveryProofs ---------------------------
(***************************************************************************)
(* The sessions of one message box, for any number of publishers and       *)
(* subscribers, messages of any length and a block of any size.            *)
(***************************************************************************)
EXTENDS Delivery, TfsStateProofs

(* process_manager_create, on an empty file system: the file is there if   *)
(* an inode was left for it, and its handle is closed.                     *)
LEMMA BoxMade ==
  LET made == Open(InitialState, Box, {"creat"})
      s == Close(made.fs, made.ret).fs
  IN /\ s \in Tables /\ NoLinks(s) /\ s.opened = {}
     /\ MaxInodes > 1 => Lookup(s, Box) # None
<1> DEFINE made == Open(InitialState, Box, {"creat"})
           s == Close(made.fs, made.ret).fs
<1>1. InitialState \in Tables /\ NoLinks(InitialState)
  BY InitialStateType DEF InitialState, NoLinks
<1>2. Box \in Names /\ Lookup(InitialState, Box) = None
  <2>1. {e \in Entries : InitialState.dir[e].inum # None /\ InitialState.dir[e].name = Box} = {}
    BY DEF InitialState
  <2> QED
    BY <2>1, LookupFound, DeliveryAssumption
<1>3. /\ ~(MaxInodes > 1 /\ Inums \subseteq InitialState.inodes)
      /\ Addable(InitialState, Box)
  <2>1. MaxInodes > 1 => 1 \in Inums \ {Root}
    BY Sizes DEF Inums, Root
  <2>2. 0 \in Entries /\ \A e \in Entries : InitialState.dir[e].inum = None
    BY Sizes DEF Entries, InitialState
  <2> QED
    BY <2>1, <2>2, DeliveryAssumption DEF InitialState, Addable
<1>4. /\ made.fs \in Tables /\ NoLinks(made.fs) /\ made.ret \in Handles \cup {None}
      /\ made.fs.opened = {made.ret} \ {None}
      /\ MaxInodes > 1 => Lookup(made.fs, Box) # None
  <2>1. InitialState.opened = {} /\ Entries = DOMAIN InitialState.dir
    BY DEF InitialState
  <2>2. made.fs.opened = {made.ret} \ {None}
    BY <1>1, <1>2, <2>1, OpenNew
  <2>3. ASSUME MaxInodes > 1 PROVE Lookup(made.fs, Box) # None
    <3>1. PICK e \in Entries, i \in Inums :
            made.fs.dir = [InitialState.dir EXCEPT ![e] = [name |-> Box, inum |-> i]]
      BY <1>1, <1>2, <1>3, <2>3, OpenNew
    <3> QED
      BY <2>1, <3>1, FilledFound
  <2> QED
    BY <1>1, <1>2, <2>2, <2>3, OpenType, OpenNoLinks
<1> HIDE DEF made
<1>5. s \in Tables
  BY <1>4, CloseType
<1>6. s.dir = made.fs.dir /\ s.inode = made.fs.inode /\ s.opened = {}
  BY <1>4 DEF Close, Return
<1>7. Lookup(s, Box) = Lookup(made.fs, Box)
  <2> HIDE DEF s
  <2> QED
    BY <1>6, LookupSame
<1> QED
  BY <1>4, <1>5, <1>6, <1>7 DEF NoLinks, made

-----------------------------------------------------------------------------
(* Where workers can be, and where a subscriber has box_lock. *)
PubPlaces == {"idle", "open", "read", "write", "broadcast", "close"}
Locked == {"poll", "wait", "send", "more", "unlock"}
SubPlaces == {"idle", "open", "lock", "relock", "asleep"} \cup Locked

(* The types of all that Delivery keeps, buffers and places included: the  *)
(* file system has no links, a publisher about to write has a message, and *)
(* a subscriber is past the lock exactly while it owns it.                 *)
TypeInv ==
  /\ TypeOK
  /\ fs \in Tables /\ NoLinks(fs)
  /\ pc \in [Workers -> PubPlaces \cup SubPlaces]
  /\ text \in [Workers -> Seq(Bytes)]
  /\ \A p \in Publishers : pc[p] \in PubPlaces /\ (pc[p] = "write" => text[p] \in Texts)
  /\ \A s \in Subscribers : pc[s] \in SubPlaces /\ (pc[s] \in Locked <=> box_lock = s)

(* What the constants are: publishers and subscribers are different workers, *)
(* and none is Nobody; messages and garbage are sequences of bytes.        *)
LEMMA Sorts ==
  /\ Publishers \subseteq Workers /\ Subscribers \subseteq Workers
  /\ Publishers \cap Subscribers = {} /\ Nobody \notin Workers
  /\ Box \in Names /\ <<>> \in Seq(Bytes) /\ Nul \in Bytes
  /\ Texts \subseteq Seq(Bytes) /\ Garbage \subseteq Seq(Bytes)
<1>1. \A t \in Texts \cup Garbage : t \in Seq(Bytes)
  <2> SUFFICES ASSUME NEW t \in Texts \cup Garbage PROVE t \in Seq(Bytes)
    OBVIOUS
  <2>1. t \in Seq(Bytes \ {Nul})
    BY DeliveryAssumption
  <2> QED
    BY <2>1
<1> QED
  BY <1>1, DeliveryAssumption, TfsAssumption DEF Workers

(* The box as process_manager_create leaves it.                            *)
LEMMA InitTypes == Init => TypeInv
<1> SUFFICES ASSUME Init PROVE TypeInv
  OBVIOUS
<1>1. fs \in Tables /\ NoLinks(fs)
  BY BoxMade DEF Init
<1>2. TypeOK
  BY Sorts DEF Init, TypeOK
<1> QED
  BY <1>1, <1>2, Sorts DEF Init, TypeInv, TypeOK, PubPlaces, SubPlaces, Locked

(* Each step of process_pub keeps the types, and the lock with the worker  *)
(* whose place says that it has it.                                        *)
LEMMA PublisherTypes ==
  ASSUME TypeInv, NEW p \in Publishers, Publish(p) \/ process_pub(p) \/ ClientSends(p)
  PROVE  TypeInv'
<1> USE Sorts DEF PubPlaces, SubPlaces, Locked
<1>0. p \in Workers /\ p \notin Subscribers
  OBVIOUS
<1>1. CASE Publish(p)
  BY <1>0, <1>1 DEF Publish, Goto, TypeInv, TypeOK
<1>2. CASE PubOpen(p)
  <2> DEFINE r == Open(fs, Box, {"append"})
  <2>1. r.fs \in Tables /\ NoLinks(r.fs) /\ r.ret \in Handles \cup {None}
    BY OpenType, OpenTakesHandle DEF TypeInv, NoLinks
  <2> HIDE DEF r
  <2>2. /\ Goto(p, "open", IF r.ret = None THEN "idle" ELSE "read")
        /\ fs' = r.fs /\ handle' = [handle EXCEPT ![p] = r.ret]
        /\ client' = [client EXCEPT ![p] = @ /\ r.ret # None]
        /\ pipe' = [pipe EXCEPT ![p] = IF r.ret = None THEN <<>> ELSE @]
        /\ UNCHANGED <<up, n_pub, box_lock, text, sent, received>>
    BY <1>2 DEF PubOpen, r
  <2> QED
    BY <1>0, <2>1, <2>2 DEF Goto, TypeInv, TypeOK
<1>3. CASE PubRead(p)
  <2>1. pipe[p] \in Seq(Texts) /\ pipe[p] # <<>>
    BY <1>3 DEF PubRead, TypeInv, TypeOK
  <2>2. Head(pipe[p]) \in Texts /\ Tail(pipe[p]) \in Seq(Texts)
    BY <2>1
  <2>3. Head(pipe[p]) \in Seq(Bytes)
    BY <2>2
  <2> QED
    BY <1>0, <1>3, <2>2, <2>3 DEF PubRead, Goto, TypeInv, TypeOK
<1>4. CASE PubEof(p)
  BY <1>0, <1>4 DEF PubEof, Goto, TypeInv, TypeOK
<1>5. CASE PubWrite(p)
  <2> DEFINE line == Append(text[p], Nul)
             r == Write(fs, handle[p], line)
  <2>1. pc[p] = "write" /\ text[p] \in Texts /\ text[p] \in Seq(Bytes)
    BY <1>5 DEF PubWrite, Goto, TypeInv
  <2>2. line \in Seq(Bytes)
    BY <2>1
  <2> HIDE DEF line
  <2>3. r.fs \in Tables /\ NoLinks(r.fs)
    <3>0. fs \in Tables /\ NoLinks(fs)
      BY DEF TypeInv
    <3>1. r.fs \in Tables
      BY <2>2, <3>0, WriteType
    <3>2. \A j \in Inums : r.fs.inode[j].type = fs.inode[j].type
      BY <2>2, <3>0, WriteMoves
    <3> QED
      BY <3>0, <3>1, <3>2 DEF NoLinks
  <2>4. /\ Goto(p, "write", IF r.ret = None THEN "close" ELSE "broadcast")
        /\ fs' = r.fs /\ sent' = IF r.ret = None THEN sent ELSE Append(sent, text[p])
        /\ text' = [text EXCEPT ![p] = <<>>]
        /\ UNCHANGED <<up, n_pub, box_lock, handle, client, pipe, received>>
    BY <1>5 DEF PubWrite, line
  <2> HIDE DEF r
  <2>5. sent' \in Seq(Texts)
    BY <2>1, <2>4 DEF TypeInv, TypeOK
  <2> QED
    BY <1>0, <2>3, <2>4, <2>5 DEF Goto, TypeInv, TypeOK
<1>6. CASE PubBroadcast(p)
  BY <1>0, <1>6 DEF PubBroadcast, TypeInv, TypeOK
<1>7. CASE PubClose(p)
  <2>1. Close(fs, handle[p]).fs \in Tables /\ NoLinks(Close(fs, handle[p]).fs)
    <3>1. Close(fs, handle[p]).fs.inode = fs.inode
      BY DEF Close, Return
    <3> QED
      BY <3>1, CloseType DEF TypeInv, NoLinks
  <2> QED
    BY <1>0, <1>7, <2>1 DEF PubClose, Goto, TypeInv, TypeOK
<1>8. CASE ClientSends(p)
  <2>1. PICK t \in Texts : pipe' = [pipe EXCEPT ![p] = Append(@, t)]
    BY <1>8 DEF ClientSends
  <2>2. Append(pipe[p], t) \in Seq(Texts)
    BY DEF TypeInv, TypeOK
  <2> QED
    BY <1>8, <2>1, <2>2 DEF ClientSends, TypeInv, TypeOK
<1> QED
  BY <1>1, <1>2, <1>3, <1>4, <1>5, <1>6, <1>7, <1>8 DEF process_pub

(* The same for process_sub.                                               *)
LEMMA SubscriberTypes ==
  ASSUME TypeInv, NEW s \in Subscribers, Subscribe(s) \/ process_sub(s) \/ SpuriousWakeup(s)
  PROVE  TypeInv'
<1> USE Sorts DEF PubPlaces, SubPlaces, Locked
<1>0. s \in Workers /\ s \notin Publishers /\ s # Nobody
  OBVIOUS
<1>1. CASE Subscribe(s)
  BY <1>0, <1>1 DEF Subscribe, Goto, TypeInv, TypeOK
<1>2. CASE SubOpen(s)
  <2> DEFINE r == Open(fs, Box, {})
  <2>1. r.fs \in Tables /\ NoLinks(r.fs) /\ r.ret \in Handles \cup {None}
    BY OpenType, OpenTakesHandle DEF TypeInv, NoLinks
  <2> HIDE DEF r
  <2>2. /\ Goto(s, "open", "lock") /\ up' = (r.ret # None)
        /\ fs' = r.fs /\ handle' = [handle EXCEPT ![s] = r.ret]
        /\ UNCHANGED <<n_pub, box_lock, text, client, pipe, sent, received>>
    BY <1>2 DEF SubOpen, r
  <2> QED
    BY <1>0, <2>1, <2>2 DEF Goto, TypeInv, TypeOK
<1>3. CASE SubLock(s)
  BY <1>0, <1>3 DEF SubLock, Goto, TypeInv, TypeOK
<1>4. ASSUME NEW from \in {"poll", "more"}, NEW none \in {"wait", "unlock"},
             SubRead(s, from, none)
      PROVE  TypeInv'
  <2> DEFINE r == Read(fs, handle[s], BlockSize)
  <2>1. r.fs \in Tables /\ r.out \in Seq(Bytes) /\ NoLinks(r.fs)
    <3>1. fs \in Tables /\ BlockSize \in Nat
      BY Sizes DEF TypeInv
    <3>2. NoLinks(r.fs)
      <4>1. CASE handle[s] \in fs.opened
        <5>1. r = Copy(fs, handle[s], ToRead(fs, handle[s], BlockSize))
          BY <4>1 DEF Read
        <5>2. handle[s] \in Handles
          BY <3>1, <4>1 DEF Tables
        <5> HIDE DEF r
        <5>3. r.fs.inode = fs.inode
          BY <3>1, <5>1, <5>2, CopyMoves
        <5> QED
          BY <5>3 DEF TypeInv, NoLinks
      <4>2. CASE handle[s] \notin fs.opened
        BY <4>2 DEF Read, Return, TypeInv
      <4> QED
        BY <4>1, <4>2
    <3> QED
      BY <3>1, <3>2, ReadType
  <2>2. /\ Goto(s, from, IF r.ret > 0 THEN "send" ELSE none)
        /\ fs' = r.fs /\ text' = [text EXCEPT ![s] = r.out]
        /\ UNCHANGED <<up, n_pub, box_lock, handle, client, pipe, sent, received>>
    BY <1>4 DEF SubRead
  <2> HIDE DEF r
  <2> DEFINE to == IF r.ret > 0 THEN "send" ELSE none
  <2>3. to \in Locked
    OBVIOUS
  <2> HIDE DEF to
  <2>4. Goto(s, from, to)
    BY <2>2 DEF to
  <2> QED
    BY <1>0, <2>1, <2>2, <2>3, <2>4 DEF Goto, TypeInv, TypeOK
<1>5. CASE SubPoll(s)
  BY <1>4, <1>5 DEF SubPoll
<1>6. CASE SubMore(s)
  BY <1>4, <1>6 DEF SubMore
<1>7. CASE SubWait(s)
  BY <1>0, <1>7 DEF SubWait, Goto, TypeInv, TypeOK
<1>8. CASE SpuriousWakeup(s)
  BY <1>0, <1>8 DEF SpuriousWakeup, Goto, TypeInv, TypeOK
<1>9. CASE SubSend(s)
  <2>1. PICK g \in Tails(s) : received' = [received EXCEPT ![s] = Append(@, text[s] \o g)]
    BY <1>9 DEF SubSend
  <2>2. g \in Seq(Bytes)
    BY DEF Tails
  <2>3. received[s] \in Seq(Seq(Bytes)) /\ text[s] \in Seq(Bytes)
    BY <1>0 DEF TypeInv, TypeOK
  <2>4. text[s] \o g \in Seq(Bytes)
    BY <2>2, <2>3
  <2>5. Append(received[s], text[s] \o g) \in Seq(Seq(Bytes))
    BY <2>3, <2>4
  <2>6. received' \in [Subscribers -> Seq(Seq(Bytes))]
    BY <2>1, <2>5 DEF TypeInv, TypeOK
  <2> QED
    BY <1>0, <1>9, <2>6 DEF SubSend, Goto, TypeInv, TypeOK
<1>10. CASE SubBroken(s)
  <2>1. Close(fs, handle[s]).fs \in Tables /\ NoLinks(Close(fs, handle[s]).fs)
    <3>1. Close(fs, handle[s]).fs.inode = fs.inode
      BY DEF Close, Return
    <3> QED
      BY <3>1, CloseType DEF TypeInv, NoLinks
  <2> QED
    BY <1>0, <1>10, <2>1 DEF SubBroken, Goto, TypeInv, TypeOK
<1>11. CASE SubUnlock(s)
  BY <1>0, <1>11 DEF SubUnlock, Goto, TypeInv, TypeOK
<1> QED
  BY <1>1, <1>2, <1>3, <1>5, <1>6, <1>7, <1>8, <1>9, <1>10, <1>11 DEF process_sub

(* Every step of workers and clients keeps the types.                      *)
LEMMA NextTypes == TypeInv /\ [Next]_vars => TypeInv'
<1> SUFFICES ASSUME TypeInv, [Next]_vars PROVE TypeInv'
  OBVIOUS
<1>1. ASSUME NEW w \in Workers, ClientLeaves(w) PROVE TypeInv'
  BY <1>1 DEF ClientLeaves, TypeInv, TypeOK
<1>2. CASE UNCHANGED vars
  BY <1>2 DEF vars, TypeInv, TypeOK
<1> QED
  BY <1>1, <1>2, PublisherTypes, SubscriberTypes DEF Next

(* Texts, FIFOs, handles and what was received keep their types, in        *)
(* particular n_pub is never anything but 0 or 1.                          *)
THEOREM TypesCorrect == Spec => []TypeOK
<1>1. TypeInv => TypeOK
  BY DEF TypeInv
<1> QED
  BY <1>1, InitTypes, NextTypes, PTL DEF Spec

-----------------------------------------------------------------------------
(* No two subscribers are between pthread_mutex_lock and the release of    *)
(* box_lock, asleep ones not counted, whatever publishers do meanwhile.    *)
THEOREM BoxLockExcludes ==
  Spec => [](\A s, t \in Subscribers : pc[s] \in Locked /\ pc[t] \in Locked => s = t)
<1>1. TypeInv => \A s, t \in Subscribers : pc[s] \in Locked /\ pc[t] \in Locked => s = t
  BY DEF TypeInv
<1> QED
  BY <1>1, InitTypes, NextTypes, PTL DEF Spec

(* Every handle of TecnicoFS belongs to a worker, one that is in a session,*)
(* and the box's file stays where it was made.                             *)
HandlesOwned ==
  /\ \A h \in fs.opened : \E w \in Workers : handle[w] = h
  /\ \A w \in Workers : pc[w] \in {"idle", "open"} => handle[w] = None
  /\ Lookup(fs, Box) # None

(* With fewer subscribers than handles, a publisher that comes while there *)
(* is no other finds a handle.                                             *)
LEMMA HandleLeft ==
  ASSUME IsFiniteSet(Subscribers), Cardinality(Subscribers) < MaxOpen,
         TypeInv, HandlesOwned,
         \A p \in Publishers : handle[p] = None
  PROVE  ~(Handles \subseteq fs.opened)
<1> DEFINE Taken == {handle[s] : s \in Subscribers}
<1>1. fs.opened \subseteq Taken
  <2> SUFFICES ASSUME NEW h \in fs.opened PROVE h \in Taken
    OBVIOUS
  <2>1. h \in Handles
    BY DEF TypeInv, Tables
  <2>2. PICK w \in Workers : handle[w] = h
    BY DEF HandlesOwned
  <2>3. w \in Subscribers
    BY <2>1, <2>2, Sizes DEF Workers
  <2> QED
    BY <2>2, <2>3
<1>2. IsFiniteSet(Taken) /\ Cardinality(Taken) <= Cardinality(Subscribers)
  <2> DEFINE f == [s \in Subscribers |-> handle[s]]
  <2>1. f \in Surjection(Subscribers, Taken)
    BY DEF Surjection
  <2> QED
    BY <2>1, FS_Surjection
<1>3. Cardinality(Handles) = MaxOpen
  <2>1. 0 \in Int /\ MaxOpen - 1 \in Int /\ ~(0 > MaxOpen - 1) /\ (MaxOpen - 1) - 0 + 1 = MaxOpen
    BY Sizes
  <2> QED
    BY <2>1, FS_Interval DEF Handles
<1>4. ASSUME Handles \subseteq fs.opened PROVE FALSE
  <2>1. Handles \subseteq Taken
    BY <1>1, <1>4
  <2> HIDE DEF Taken
  <2>2. Cardinality(Handles) <= Cardinality(Taken)
    BY <1>2, <2>1, FS_Subset
  <2>3. Cardinality(Subscribers) \in Nat /\ Cardinality(Taken) \in Nat
    BY <1>2, FS_CardinalityType
  <2> QED
    BY <1>2, <1>3, <2>2, <2>3, Sizes
<1> QED
  BY <1>4

(* Steps keep handles with their owners. *)
LEMMA NextHandles ==
  ASSUME TypeInv, HandlesOwned, [Next]_vars
  PROVE  HandlesOwned'
<1> USE Sorts
<1>0. /\ fs \in Tables /\ NoLinks(fs) /\ pc \in [Workers -> PubPlaces \cup SubPlaces]
      /\ handle \in [Workers -> Handles \cup {None}]
      /\ \A name : fs'.dir = fs.dir => Lookup(fs', name) = Lookup(fs, name)
  BY LookupSame DEF TypeInv, TypeOK
(* A worker that opens the box, and one that closes its handle. *)
<1>1. ASSUME NEW w \in Workers, NEW mode, mode \in {{}, {"append"}}, NEW to,
             pc[w] = "open", pc' = [pc EXCEPT ![w] = to],
             fs' = Open(fs, Box, mode).fs,
             handle' = [handle EXCEPT ![w] = Open(fs, Box, mode).ret],
             to = "idle" => Open(fs, Box, mode).ret = None, to # "open"
      PROVE  HandlesOwned'
  <2> DEFINE r == Open(fs, Box, mode)
  <2>1. {"creat", "trunc"} \cap mode = {}
    BY <1>1
  <2>2. /\ r.fs.dir = fs.dir /\ r.ret \in Handles \cup {None}
        /\ r.ret = None => r.fs = fs
        /\ r.ret # None => r.fs.opened = fs.opened \cup {r.ret}
    BY <1>0, <2>1, OpenTakesHandle
  <2>3. fs' = r.fs /\ handle' = [handle EXCEPT ![w] = r.ret] /\ (to = "idle" => r.ret = None)
    BY <1>1
  <2> HIDE DEF r
  <2>4. handle[w] = None
    BY <1>1 DEF HandlesOwned
  <2>5. \A h \in fs'.opened : \E v \in Workers : handle'[v] = h
    <3> SUFFICES ASSUME NEW h \in fs'.opened PROVE \E v \in Workers : handle'[v] = h
      OBVIOUS
    <3>1. CASE h = r.ret
      BY <1>0, <2>3, <3>1
    <3>2. CASE h # r.ret
      <4>1. h \in fs.opened
        BY <2>2, <2>3, <3>2
      <4>2. h # None
        BY <1>0, <4>1, Sizes DEF Tables
      <4>3. PICK v \in Workers : handle[v] = h
        BY <4>1 DEF HandlesOwned
      <4> QED
        BY <1>0, <2>3, <2>4, <4>2, <4>3
    <3> QED
      BY <3>1, <3>2
  <2>6. \A v \in Workers : pc'[v] \in {"idle", "open"} => handle'[v] = None
    BY <1>0, <1>1, <2>3 DEF HandlesOwned
  <2> QED
    BY <1>0, <2>2, <2>3, <2>5, <2>6 DEF HandlesOwned
<1>2. ASSUME NEW w \in Workers, pc' = [pc EXCEPT ![w] = "idle"],
             fs' = Close(fs, handle[w]).fs, handle' = [handle EXCEPT ![w] = None]
      PROVE  HandlesOwned'
  <2>1. fs'.dir = fs.dir /\ fs'.opened = fs.opened \ {handle[w]}
    BY <1>2 DEF Close, Return
  <2>2. \A h \in fs'.opened : \E v \in Workers : handle'[v] = h
    BY <1>0, <1>2, <2>1 DEF HandlesOwned
  <2> QED
    BY <1>0, <1>2, <2>1, <2>2 DEF HandlesOwned
(* One that reads or writes, and one that does not touch the file. *)
<1>3. ASSUME NEW w \in Workers, NEW to, pc[w] \notin {"idle", "open"},
             pc' = [pc EXCEPT ![w] = to], to \notin {"idle", "open"},
             fs'.dir = fs.dir, fs'.opened = fs.opened, UNCHANGED handle
      PROVE  HandlesOwned'
  BY <1>0, <1>3 DEF HandlesOwned
<1>4. ASSUME UNCHANGED <<fs, handle>>,
             \A w \in Workers : pc'[w] \in {"idle", "open"} => pc[w] \in {"idle", "open"}
      PROVE  HandlesOwned'
  BY <1>4 DEF HandlesOwned
<1>5. ASSUME NEW p \in Publishers, Publish(p) \/ process_pub(p) \/ ClientSends(p)
      PROVE  HandlesOwned'
  <2>1. CASE Publish(p)
    BY <1>0, <1>4, <2>1 DEF Publish, Goto
  <2>2. CASE PubOpen(p)
    <3> DEFINE r == Open(fs, Box, {"append"})
               to == IF r.ret = None THEN "idle" ELSE "read"
    <3>1. /\ pc[p] = "open" /\ pc' = [pc EXCEPT ![p] = to]
          /\ fs' = r.fs /\ handle' = [handle EXCEPT ![p] = r.ret]
      BY <2>2 DEF PubOpen, Goto
    <3>2. (to = "idle" => r.ret = None) /\ to # "open"
      OBVIOUS
    <3> HIDE DEF to
    <3> QED
      BY <1>1, <3>1, <3>2
  <2>3. CASE PubRead(p)
    BY <1>0, <1>4, <2>3 DEF PubRead, Goto
  <2>4. CASE PubEof(p)
    BY <1>0, <1>4, <2>4 DEF PubEof, Goto
  <2>5. CASE PubWrite(p)
    <3> DEFINE line == Append(text[p], Nul)
               r == Write(fs, handle[p], line)
               to == IF r.ret = None THEN "close" ELSE "broadcast"
    <3>1. /\ pc[p] = "write" /\ pc' = [pc EXCEPT ![p] = to] /\ fs' = r.fs /\ UNCHANGED handle
      BY <2>5 DEF PubWrite, Goto
    <3>2. to \notin {"idle", "open"}
      OBVIOUS
    <3>3. line \in Seq(Bytes)
      BY DEF TypeInv
    <3> HIDE DEF to, line
    <3>4. r.fs.dir = fs.dir /\ r.fs.opened = fs.opened
      BY <1>0, <3>3, WriteMoves
    <3> HIDE DEF r
    <3> QED
      BY <1>3, <3>1, <3>2, <3>4
  <2>6. CASE PubBroadcast(p)
    BY <1>0, <1>4, <2>6 DEF PubBroadcast
  <2>7. CASE PubClose(p)
    BY <1>2, <2>7 DEF PubClose, Goto
  <2>8. CASE ClientSends(p)
    BY <1>4, <2>8 DEF ClientSends
  <2> QED
    BY <1>5, <2>1, <2>2, <2>3, <2>4, <2>5, <2>6, <2>7, <2>8 DEF process_pub
<1>6. ASSUME NEW s \in Subscribers, Subscribe(s) \/ process_sub(s) \/ SpuriousWakeup(s)
      PROVE  HandlesOwned'
  <2>1. CASE Subscribe(s)
    BY <1>0, <1>4, <2>1 DEF Subscribe, Goto
  <2>2. CASE SubOpen(s)
    <3>1. /\ pc[s] = "open" /\ pc' = [pc EXCEPT ![s] = "lock"]
          /\ fs' = Open(fs, Box, {}).fs /\ handle' = [handle EXCEPT ![s] = Open(fs, Box, {}).ret]
      BY <2>2 DEF SubOpen, Goto
    <3> QED
      BY <1>1, <3>1
  <2>3. CASE SubLock(s)
    BY <1>0, <1>4, <2>3 DEF SubLock, Goto
  <2>4. ASSUME NEW from \in {"poll", "more"}, NEW none \in {"wait", "unlock"},
               SubRead(s, from, none)
        PROVE  HandlesOwned'
    <3> DEFINE r == Read(fs, handle[s], BlockSize)
               to == IF r.ret > 0 THEN "send" ELSE none
    <3>1. /\ pc[s] = from /\ pc' = [pc EXCEPT ![s] = to] /\ fs' = r.fs /\ UNCHANGED handle
      BY <2>4 DEF SubRead, Goto
    <3>2. to \notin {"idle", "open"} /\ from \notin {"idle", "open"}
      OBVIOUS
    <3> HIDE DEF to
    <3>3. r.fs.dir = fs.dir /\ r.fs.opened = fs.opened
      <4>1. CASE handle[s] \in fs.opened
        <5>1. handle[s] \in Handles
          BY <1>0, <4>1 DEF Tables
        <5>2. r = Copy(fs, handle[s], ToRead(fs, handle[s], BlockSize))
          BY <4>1 DEF Read
        <5> HIDE DEF r
        <5> QED
          BY <1>0, <5>1, <5>2, CopyMoves
      <4>2. CASE handle[s] \notin fs.opened
        BY <4>2 DEF Read, Return
      <4> QED
        BY <4>1, <4>2
    <3> HIDE DEF r
    <3> QED
      BY <1>3, <3>1, <3>2, <3>3
  <2>5. CASE SubPoll(s)
    BY <2>4, <2>5 DEF SubPoll
  <2>6. CASE SubMore(s)
    BY <2>4, <2>6 DEF SubMore
  <2>7. CASE SubWait(s)
    BY <1>0, <1>4, <2>7 DEF SubWait, Goto
  <2>8. CASE SubSend(s)
    BY <1>0, <1>4, <2>8 DEF SubSend, Goto
  <2>9. CASE SubBroken(s)
    BY <1>2, <2>9 DEF SubBroken, Goto
  <2>10. CASE SubUnlock(s)
    BY <1>0, <1>4, <2>10 DEF SubUnlock, Goto
  <2>11. CASE SpuriousWakeup(s)
    BY <1>0, <1>4, <2>11 DEF SpuriousWakeup, Goto
  <2> QED
    BY <1>6, <2>1, <2>2, <2>3, <2>5, <2>6, <2>7, <2>8, <2>9, <2>10, <2>11 DEF process_sub
<1>7. ASSUME NEW w \in Workers, ClientLeaves(w) PROVE HandlesOwned'
  BY <1>4, <1>7 DEF ClientLeaves
<1>8. CASE UNCHANGED vars
  BY <1>4, <1>8 DEF vars
<1> QED
  BY <1>5, <1>6, <1>7, <1>8 DEF Next

(* At the start no handle is in use.                                       *)
LEMMA InitHandles == Init /\ MaxInodes > 1 => HandlesOwned
BY BoxMade DEF Init, HandlesOwned

(* While there is a handle for every subscriber and one more, n_pub says   *)
(* whether a publisher is in, and there is never a second one: the check   *)
(* and the count under box_size_lock, and the reset at the end of the      *)
(* session without it, are enough.                                         *)
THEOREM AtMostOnePublisher ==
  ASSUME IsFiniteSet(Subscribers), Cardinality(Subscribers) < MaxOpen, MaxInodes > 1
  PROVE  Spec => []OnePublisher
<1> USE Sorts
<1>1. Init => OnePublisher
  BY DEF Init, OnePublisher
<1>2. TypeInv /\ HandlesOwned /\ OnePublisher /\ [Next]_vars => OnePublisher'
  <2> SUFFICES ASSUME TypeInv, HandlesOwned, OnePublisher, [Next]_vars PROVE OnePublisher'
    OBVIOUS
  <2>0. pc \in [Workers -> PubPlaces \cup SubPlaces]
    BY DEF TypeInv
  <2>1. ASSUME UNCHANGED n_pub,
               \A p \in Publishers : pc'[p] = "idle" <=> pc[p] = "idle"
        PROVE  OnePublisher'
    BY <2>1 DEF OnePublisher
  <2>2. ASSUME NEW p \in Publishers, NEW from, NEW to, Goto(p, from, to),
               from # "idle", to # "idle", UNCHANGED n_pub
        PROVE  OnePublisher'
    BY <2>0, <2>1, <2>2 DEF Goto
  <2>3. ASSUME NEW p \in Publishers, Publish(p) \/ process_pub(p) \/ ClientSends(p)
        PROVE  OnePublisher'
    <3>1. CASE Publish(p)
      BY <2>0, <3>1 DEF Publish, Goto, OnePublisher
    <3>2. CASE PubOpen(p)
      <4>1. pc[p] = "open" /\ UNCHANGED n_pub
        BY <3>2 DEF PubOpen, Goto
      <4>2. \A q \in Publishers : handle[q] = None
        BY <4>1 DEF OnePublisher, HandlesOwned
      <4>3. Open(fs, Box, {"append"}).ret # None
        <5>1. ~(Handles \subseteq fs.opened)
          BY <4>2, HandleLeft
        <5>2. fs \in Tables /\ NoLinks(fs) /\ Lookup(fs, Box) # None
          BY DEF TypeInv, HandlesOwned
        <5> QED
          BY <5>1, <5>2, OpenTakesHandle
      <4>4. Goto(p, "open", "read")
        BY <3>2, <4>3 DEF PubOpen
      <4> QED
        BY <2>2, <4>1, <4>4
    <3>3. CASE PubRead(p)
      BY <2>2, <3>3 DEF PubRead
    <3>4. CASE PubEof(p)
      BY <2>2, <3>4 DEF PubEof
    <3>5. CASE PubWrite(p)
      <4>1. Goto(p, "write", "close") \/ Goto(p, "write", "broadcast")
        BY <3>5 DEF PubWrite
      <4>2. UNCHANGED n_pub
        BY <3>5 DEF PubWrite
      <4> QED
        BY <2>2, <4>1, <4>2
    <3>6. CASE PubBroadcast(p)
      BY <2>0, <2>1, <3>6 DEF PubBroadcast, TypeInv, PubPlaces
    <3>7. CASE PubClose(p)
      BY <2>0, <3>7 DEF PubClose, Goto, OnePublisher
    <3>8. CASE ClientSends(p)
      BY <2>1, <3>8 DEF ClientSends
    <3> QED
      BY <2>3, <3>1, <3>2, <3>3, <3>4, <3>5, <3>6, <3>7, <3>8 DEF process_pub
  <2>4. ASSUME NEW s \in Subscribers, Subscribe(s) \/ process_sub(s) \/ SpuriousWakeup(s)
        PROVE  OnePublisher'
    <3>1. UNCHANGED n_pub /\ \E to : pc' = [pc EXCEPT ![s] = to]
      BY <2>4 DEF Subscribe, process_sub, SpuriousWakeup, SubOpen, SubLock, SubPoll, SubMore,
                  SubRead, SubWait, SubSend, SubBroken, SubUnlock, Goto
    <3> QED
      BY <2>0, <2>1, <3>1
  <2>5. ASSUME NEW w \in Workers, ClientLeaves(w) PROVE OnePublisher'
    BY <2>1, <2>5 DEF ClientLeaves
  <2>6. CASE UNCHANGED vars
    BY <2>1, <2>6 DEF vars
  <2> QED
    BY <2>3, <2>4, <2>5, <2>6 DEF Next
<1>3. Init => HandlesOwned
  BY InitHandles
<1>4. TypeInv /\ HandlesOwned /\ [Next]_vars => HandlesOwned'
  BY NextHandles
<1> QED
  BY <1>1, <1>2, <1>3, <1>4, InitTypes, NextTypes, PTL DEF Spec

-----------------------------------------------------------------------------
(* The file of the box as a journal of the messages published.             *)
InodeOf(s) == s.inode[Lookup(s, Box)]
BaseOf(s) == InodeOf(s).block * BlockSize

(* Where in the file each message ends: one after the other, each with its *)
(* terminator, as far as the block goes.  Behind the last there is nothing *)
(* but zero bytes.                                                         *)
Laid(s, msgs, ends) ==
  /\ ends \in [0 .. Len(msgs) -> 0 .. BlockSize] /\ ends[0] = 0
  /\ \A k \in 1 .. Len(msgs) :
       /\ ends[k] = IF ends[k - 1] + Len(msgs[k]) < BlockSize
                      THEN ends[k - 1] + Len(msgs[k]) + 1 ELSE BlockSize
       /\ \A j \in ends[k - 1] .. ends[k] - 1 :
            s.data[BaseOf(s) + j] = Append(msgs[k], Nul)[j - ends[k - 1] + 1]
  /\ \A j, k \in 0 .. Len(msgs) : j <= k => ends[j] <= ends[k]
  /\ InodeOf(s).size = ends[Len(msgs)]
  /\ InodeOf(s).size > 0 => InodeOf(s).block \in Blocks
  /\ \A p \in DOMAIN s.data :
       p \notin BaseOf(s) .. BaseOf(s) + InodeOf(s).size - 1 => s.data[p] = Nul

(* What the block holds of message i. *)
Room(ends, i) == BlockSize - ends[i - 1]
Stored(msgs, ends, i) ==
  SubSeq(msgs[i], 1, IF Len(msgs[i]) <= Room(ends, i) THEN Len(msgs[i]) ELSE Room(ends, i))

Counted(msgs, i) == Cardinality({j \in 1 .. i : msgs[j] # <<>>})

(* Message i is the k-th that is not empty, and the block holds some of it. *)
Nth(msgs, ends, i, k) == /\ i \in 1 .. Len(msgs) /\ msgs[i] # <<>>
                         /\ Counted(msgs, i) = k /\ ends[i - 1] < BlockSize

(* A reader that has had c messages is behind the last of them or at its   *)
(* terminator.                                                             *)
Place(msgs, ends, off, c) ==
  /\ c \in 0 .. Len(msgs)
  /\ \/ off = ends[c]
     \/ c > 0 /\ off = ends[c] - 1 /\ ends[c] = ends[c - 1] + Len(msgs[c]) + 1

(* Counting the messages that are not empty. *)
LEMMA CountedNext ==
  ASSUME NEW msgs
  PROVE  /\ Counted(msgs, 0) = 0
         /\ \A i \in Nat : Counted(msgs, i) \in Nat
         /\ \A i \in Nat \ {0} : Counted(msgs, i) = Counted(msgs, i - 1)
                                                   + IF msgs[i] # <<>> THEN 1 ELSE 0
         /\ \A i, j \in Nat : j <= i => Counted(msgs, j) <= Counted(msgs, i)
<1> DEFINE S(i) == {j \in 1 .. i : msgs[j] # <<>>}
<1>1. \A i \in Nat : IsFiniteSet(S(i)) /\ Cardinality(S(i)) \in Nat
  <2> SUFFICES ASSUME NEW i \in Nat PROVE IsFiniteSet(S(i)) /\ Cardinality(S(i)) \in Nat
    OBVIOUS
  <2>0. 1 \in Int /\ i \in Int
    OBVIOUS
  <2>1. IsFiniteSet(1 .. i) /\ S(i) \subseteq 1 .. i
    BY <2>0, FS_Interval
  <2> HIDE DEF S
  <2> QED
    BY <2>1, FS_Subset, FS_CardinalityType
<1>2. S(0) = {}
  OBVIOUS
<1>3. \A i \in Nat \ {0} : /\ i \notin S(i - 1)
                           /\ S(i) = IF msgs[i] # <<>> THEN S(i - 1) \cup {i} ELSE S(i - 1)
  <2> SUFFICES ASSUME NEW i \in Nat \ {0}
               PROVE  /\ i \notin S(i - 1)
                      /\ S(i) = IF msgs[i] # <<>> THEN S(i - 1) \cup {i} ELSE S(i - 1)
    OBVIOUS
  <2>1. 1 .. i = (1 .. i - 1) \cup {i} /\ i \notin 1 .. i - 1
    OBVIOUS
  <2> QED
    BY <2>1
<1>4. \A i, j \in Nat : j <= i => S(j) \subseteq S(i)
  OBVIOUS
<1>5. \A i : Counted(msgs, i) = Cardinality(S(i))
  BY DEF Counted
<1> HIDE DEF S
<1>6. Cardinality(S(0)) = 0
  BY <1>2, FS_EmptySet
<1>7. \A i \in Nat \ {0} : Cardinality(S(i)) = Cardinality(S(i - 1)) + IF msgs[i] # <<>> THEN 1 ELSE 0
  <2> SUFFICES ASSUME NEW i \in Nat \ {0}
               PROVE  Cardinality(S(i)) = Cardinality(S(i - 1)) + IF msgs[i] # <<>> THEN 1 ELSE 0
    OBVIOUS
  <2>1. i - 1 \in Nat
    OBVIOUS
  <2>2. CASE msgs[i] # <<>>
    BY <1>1, <1>3, <2>1, <2>2, FS_AddElement
  <2>3. CASE ~(msgs[i] # <<>>)
    BY <1>1, <1>3, <2>1, <2>3
  <2> QED
    BY <2>2, <2>3
<1>8. \A i, j \in Nat : j <= i => Cardinality(S(j)) <= Cardinality(S(i))
  BY <1>1, <1>4, FS_Subset
<1> QED
  BY <1>1, <1>5, <1>6, <1>7, <1>8

(* What the journal holds of message k: its bytes, none of them zero, and  *)
(* then the terminator, if the block goes that far.                        *)
LEMMA MessageBytes ==
  ASSUME NEW s \in Tables, NEW msgs \in Seq(Texts), NEW ends, Laid(s, msgs, ends),
         NEW k \in 1 .. Len(msgs)
  PROVE  LET q == ends[k - 1]
             m == msgs[k]
         IN /\ q \in Nat /\ ends[k] \in Nat /\ InodeOf(s).size \in Nat /\ Len(m) \in Nat
            /\ q <= ends[k] /\ ends[k] <= InodeOf(s).size /\ InodeOf(s).size <= BlockSize
            /\ q < BlockSize => q < ends[k]
            /\ ends[k] = IF q + Len(m) < BlockSize THEN q + Len(m) + 1 ELSE BlockSize
            /\ \A j \in 0 .. Len(m) - 1 : q + j < ends[k] =>
                 s.data[BaseOf(s) + (q + j)] = m[j + 1] /\ m[j + 1] # Nul
            /\ q + Len(m) < ends[k] => s.data[BaseOf(s) + (q + Len(m))] = Nul
<1> DEFINE q == ends[k - 1]
           m == msgs[k]
           size == InodeOf(s).size
           N == Len(msgs)
<1>1. N \in Nat /\ k - 1 \in 0 .. N /\ k \in 0 .. N /\ N \in 0 .. N /\ k - 1 <= k /\ k <= N
  OBVIOUS
<1>2. m \in Texts /\ m \in Seq(Bytes \ {Nul})
  <2>1. m \in Texts
    OBVIOUS
  <2> QED
    BY <2>1, DeliveryAssumption
<1>3. Len(m) \in Nat /\ \A j \in 1 .. Len(m) : m[j] # Nul
  <2> HIDE DEF m
  <2> QED
    BY <1>2
<1>4. Append(m, Nul)[Len(m) + 1] = Nul /\ \A j \in 1 .. Len(m) : Append(m, Nul)[j] = m[j]
  <2> HIDE DEF m
  <2> QED
    BY <1>2, <1>3
<1>5. /\ ends \in [0 .. N -> 0 .. BlockSize]
      /\ ends[k] = IF q + Len(m) < BlockSize THEN q + Len(m) + 1 ELSE BlockSize
      /\ \A j \in q .. ends[k] - 1 : s.data[BaseOf(s) + j] = Append(m, Nul)[j - q + 1]
      /\ \A i, j \in 0 .. N : i <= j => ends[i] <= ends[j]
      /\ size = ends[N]
  BY DEF Laid
<1>6. /\ q \in 0 .. BlockSize /\ ends[k] \in 0 .. BlockSize /\ size \in 0 .. BlockSize
      /\ q <= ends[k] /\ ends[k] <= size
  <2> HIDE DEF size, N
  <2> QED
    BY <1>1, <1>5
<1> HIDE DEF q, m, size, N
<1>7. /\ q \in Nat /\ ends[k] \in Nat /\ size \in Nat /\ size <= BlockSize
      /\ q < BlockSize => q < ends[k]
  BY <1>3, <1>5, <1>6, Sizes
<1>8. ASSUME NEW j \in 0 .. Len(m), q + j < ends[k]
      PROVE  s.data[BaseOf(s) + (q + j)] = Append(m, Nul)[j + 1]
  <2>1. q + j \in q .. ends[k] - 1 /\ (q + j) - q + 1 = j + 1
    BY <1>3, <1>7, <1>8
  <2> QED
    BY <1>5, <2>1
<1>9. ASSUME NEW j \in 0 .. Len(m) - 1, q + j < ends[k]
      PROVE  s.data[BaseOf(s) + (q + j)] = m[j + 1] /\ m[j + 1] # Nul
  <2>1. j \in 0 .. Len(m) /\ j + 1 \in 1 .. Len(m)
    BY <1>3
  <2> QED
    BY <1>3, <1>4, <1>8, <1>9, <2>1
<1>10. q + Len(m) < ends[k] => s.data[BaseOf(s) + (q + Len(m))] = Nul
  <2>1. Len(m) \in 0 .. Len(m)
    BY <1>3
  <2> QED
    BY <1>4, <1>8, <2>1
<1> QED
  BY <1>3, <1>5, <1>6, <1>7, <1>9, <1>10 DEF q, m, size

(* A terminator at a reader's offset is the one of the last message it had *)
(* or an empty message.                                                    *)
LEMMA SkipsTerminator ==
  ASSUME NEW s \in Tables, NEW msgs \in Seq(Texts), NEW ends, Laid(s, msgs, ends),
         NEW off, NEW c, Place(msgs, ends, off, c), off < InodeOf(s).size
  PROVE  LET q == IF s.data[BaseOf(s) + off] = Nul THEN off + 1 ELSE off
         IN \E b \in 0 .. Len(msgs) : q = ends[b] /\ Counted(msgs, b) = Counted(msgs, c)
<1> DEFINE q == IF s.data[BaseOf(s) + off] = Nul THEN off + 1 ELSE off
           N == Len(msgs)
           size == InodeOf(s).size
<1>1. N \in Nat /\ c \in 0 .. N /\ c \in Nat
  BY DEF Place
<1>2. CASE off = ends[c]
  <2>1. c # N
    <3> SUFFICES ASSUME c = N PROVE FALSE
      OBVIOUS
    <3>1. size = ends[N] /\ ends[N] \in 0 .. BlockSize
      BY <1>1 DEF Laid
    <3> QED
      BY <1>2, <3>1
  <2> DEFINE k == c + 1
             m == msgs[k]
  <2>2. k \in 1 .. N /\ k - 1 = c /\ k \in Nat \ {0}
    BY <1>1, <2>1
  <2> HIDE DEF k
  <2>3. /\ ends[c] \in Nat /\ ends[k] \in Nat /\ size \in Nat /\ Len(m) \in Nat
        /\ ends[c] < BlockSize => ends[c] < ends[k]
        /\ size <= BlockSize
        /\ ends[k] = IF ends[c] + Len(m) < BlockSize THEN ends[c] + Len(m) + 1 ELSE BlockSize
        /\ \A j \in 0 .. Len(m) - 1 : ends[c] + j < ends[k] =>
             s.data[BaseOf(s) + (ends[c] + j)] = m[j + 1] /\ m[j + 1] # Nul
    <3>1. /\ ends[k - 1] \in Nat /\ ends[k] \in Nat /\ InodeOf(s).size \in Nat
          /\ Len(msgs[k]) \in Nat /\ InodeOf(s).size <= BlockSize
          /\ ends[k - 1] < BlockSize => ends[k - 1] < ends[k]
          /\ ends[k] = IF ends[k - 1] + Len(msgs[k]) < BlockSize
                         THEN ends[k - 1] + Len(msgs[k]) + 1 ELSE BlockSize
          /\ \A j \in 0 .. Len(msgs[k]) - 1 : ends[k - 1] + j < ends[k] =>
               s.data[BaseOf(s) + (ends[k - 1] + j)] = msgs[k][j + 1] /\ msgs[k][j + 1] # Nul
      <4>1. k \in 1 .. Len(msgs)
        BY <2>2
      <4> HIDE DEF N, m, size
      <4> QED
        BY <4>1, MessageBytes
    <3> QED
      BY <2>2, <3>1
  <2> HIDE DEF m, size
  <2>4. ends[c] < size
    BY <1>2 DEF size
  <2>5. ends[c] < BlockSize /\ ends[c] < ends[k]
    BY <2>3, <2>4, Sizes
  <2>6. CASE s.data[BaseOf(s) + off] = Nul
    <3>1. Len(m) = 0
      <4> SUFFICES ASSUME Len(m) # 0 PROVE FALSE
        OBVIOUS
      <4>1. 0 \in 0 .. Len(m) - 1 /\ ends[c] + 0 = ends[c]
        BY <2>3
      <4> QED
        BY <1>2, <2>3, <2>5, <2>6, <4>1
    <3>2. m = <<>>
      <4>1. m \in Seq(Bytes)
        BY <2>2, Sorts DEF m
      <4> QED
        BY <3>1, <4>1
    <3>3. ends[k] = off + 1
      BY <1>2, <2>3, <2>5, <3>1, Sizes
    <3>4. Counted(msgs, k) = Counted(msgs, c)
      <4>1. /\ Counted(msgs, k) = Counted(msgs, k - 1) + IF msgs[k] # <<>> THEN 1 ELSE 0
            /\ Counted(msgs, c) \in Nat
        BY <1>1, <2>2, CountedNext
      <4>2. Counted(msgs, k) = Counted(msgs, c) + 0
        BY <2>2, <3>2, <4>1 DEF m
      <4> QED
        BY <4>1, <4>2
    <3> QED
      BY <2>2, <2>6, <3>3, <3>4
  <2>7. CASE s.data[BaseOf(s) + off] # Nul
    BY <1>1, <1>2, <2>7
  <2> QED
    BY <2>6, <2>7
<1>3. CASE c > 0 /\ off = ends[c] - 1 /\ ends[c] = ends[c - 1] + Len(msgs[c]) + 1
  <2>1. c \in 1 .. N
    BY <1>1, <1>3
  <2>2. /\ ends[c - 1] \in Nat /\ ends[c] \in Nat /\ Len(msgs[c]) \in Nat
        /\ ends[c - 1] + Len(msgs[c]) < ends[c] =>
             s.data[BaseOf(s) + (ends[c - 1] + Len(msgs[c]))] = Nul
    BY <2>1, MessageBytes
  <2>3. off = ends[c - 1] + Len(msgs[c]) /\ ends[c - 1] + Len(msgs[c]) < ends[c]
    BY <1>3, <2>2
  <2>4. s.data[BaseOf(s) + off] = Nul
    BY <2>2, <2>3
  <2>5. q = ends[c]
    BY <1>3, <2>2, <2>4
  <2> QED
    BY <1>1, <2>5
<1> QED
  BY <1>2, <1>3 DEF Place

(* n bytes of the file from q on, the last before a zero or the end.       *)
Piece(s, q, n) ==
  /\ q + n <= InodeOf(s).size
  /\ \A k \in q .. q + n - 1 : s.data[BaseOf(s) + k] # Nul
  /\ q + n < InodeOf(s).size => s.data[BaseOf(s) + q + n] = Nul

(* From the end of one message on, a read hands out the next one, or what  *)
(* the block holds of it; or nothing, at the end of the file and in front  *)
(* of an empty message.                                                    *)
LEMMA ReadsNext ==
  ASSUME NEW s \in Tables, NEW msgs \in Seq(Texts), NEW ends, Laid(s, msgs, ends),
         NEW b \in 0 .. Len(msgs), NEW n \in Nat, Piece(s, ends[b], n)
  PROVE  \E c : /\ Place(msgs, ends, ends[b] + n, c)
                /\ IF n = 0 THEN Counted(msgs, c) = Counted(msgs, b)
                   ELSE /\ Counted(msgs, c) = Counted(msgs, b) + 1
                        /\ Nth(msgs, ends, c, Counted(msgs, c))
                        /\ [k \in 1 .. n |-> s.data[BaseOf(s) + ends[b] + k - 1]]
                             = Stored(msgs, ends, c)
<1> DEFINE q == ends[b]
           N == Len(msgs)
           size == InodeOf(s).size
           base == BaseOf(s)
<1>1. N \in Nat /\ b \in Nat
  OBVIOUS
<1>0. /\ q + n <= size
      /\ \A k \in q .. q + n - 1 : s.data[base + k] # Nul
      /\ q + n < size => s.data[base + q + n] = Nul
  BY DEF Piece
<1>2. CASE n = 0
  <2>1. q \in Nat
    <3>1. b \in 0 .. N /\ ends \in [0 .. N -> 0 .. BlockSize]
      BY DEF Laid
    <3>2. ends[b] \in 0 .. BlockSize
      BY <3>1
    <3>3. BlockSize \in Nat
      BY Sizes
    <3> QED
      BY <3>2, <3>3
  <2> QED
    BY <1>2, <2>1 DEF Place
<1>3. CASE n > 0
  <2>0. q \in Nat /\ size = ends[N] /\ size \in 0 .. BlockSize /\ size \in Nat
    BY <1>1, Sizes DEF Laid
  <2>1. b # N /\ q < size
    BY <1>0, <1>3, <2>0
  <2> DEFINE c == b + 1
             m == msgs[c]
  <2>2. c \in 1 .. N /\ c - 1 = b /\ c \in Nat \ {0} /\ c \in 0 .. N
    BY <1>1, <2>1
  <2> HIDE DEF c, N
  <2>3. /\ ends[c] \in Nat /\ Len(m) \in Nat
        /\ q < BlockSize => q < ends[c]
        /\ ends[c] <= size /\ size <= BlockSize
        /\ ends[c] = IF q + Len(m) < BlockSize THEN q + Len(m) + 1 ELSE BlockSize
        /\ \A j \in 0 .. Len(m) - 1 : q + j < ends[c] =>
             s.data[BaseOf(s) + (q + j)] = m[j + 1] /\ m[j + 1] # Nul
        /\ q + Len(m) < ends[c] => s.data[BaseOf(s) + (q + Len(m))] = Nul
    <3>1. c \in 1 .. Len(msgs)
      BY <2>2 DEF N
    <3>2. /\ ends[c] \in Nat /\ Len(msgs[c]) \in Nat
          /\ ends[c] <= InodeOf(s).size /\ InodeOf(s).size <= BlockSize
          /\ ends[c - 1] < BlockSize => ends[c - 1] < ends[c]
          /\ ends[c] = IF ends[c - 1] + Len(msgs[c]) < BlockSize
                         THEN ends[c - 1] + Len(msgs[c]) + 1 ELSE BlockSize
          /\ \A j \in 0 .. Len(msgs[c]) - 1 : ends[c - 1] + j < ends[c] =>
               s.data[BaseOf(s) + (ends[c - 1] + j)] = msgs[c][j + 1] /\ msgs[c][j + 1] # Nul
          /\ ends[c - 1] + Len(msgs[c]) < ends[c] =>
               s.data[BaseOf(s) + (ends[c - 1] + Len(msgs[c]))] = Nul
      BY <3>1, MessageBytes
    <3> QED
      BY <2>2, <3>2
  <2>4. m \in Seq(Bytes)
    BY <2>2, Sorts DEF N
  <2> HIDE DEF m, size
  <2> DEFINE L == Len(m)
             end == ends[c]
  <2>5. /\ BlockSize \in Nat /\ q + n <= size /\ q \in Nat /\ n \in Nat /\ L \in Nat
        /\ end \in Nat /\ end <= size /\ size <= BlockSize /\ size \in Nat
        /\ end = IF q + L < BlockSize THEN q + L + 1 ELSE BlockSize
    BY <1>0, <2>0, <2>3, Sizes DEF size
  <2>6. base \in Int
    <3>1. InodeOf(s).block \in Blocks
      <4>1. size > 0
        BY <2>0, <2>1
      <4> QED
        BY <4>1 DEF Laid, size
    <3>2. 0 \in 0 .. BlockSize - 1
      BY Sizes
    <3> QED
      BY <3>1, <3>2, BlockInside DEF BaseOf
  <2>7. \A j \in 0 .. L - 1 : q + j < end =>
          s.data[base + (q + j)] = m[j + 1] /\ m[j + 1] # Nul
    BY <2>3
  <2>8. q + L < end => s.data[base + (q + L)] = Nul
    BY <2>3
  <2>9. \A k \in q .. q + n - 1 : s.data[base + k] # Nul
    BY <1>0
  <2>10. q + n < size => s.data[base + q + n] = Nul
    BY <1>0 DEF size
  <2> HIDE DEF base, L, end
  <2>11. n <= L
    <3> SUFFICES ASSUME n > L PROVE FALSE
      BY <2>5
    <3>0. q + L < BlockSize
      BY <2>5
    <3>1. q + L \in q .. q + n - 1 /\ q + L < end
      <4>1. q + L < end
        BY <2>5, <3>0
      <4>2. q + L >= q /\ q + L <= q + n - 1 /\ q + L \in Int
        BY <2>5
      <4>3. q \in Int /\ q + n - 1 \in Int
        BY <2>5
      <4> QED
        BY <4>1, <4>2, <4>3
    <3> QED
      BY <2>8, <2>9, <3>1
  <2>12. n < L => q + n = BlockSize
    <3> SUFFICES ASSUME n < L PROVE q + n = BlockSize
      OBVIOUS
    <3>1. q + n = size
      <4> SUFFICES ASSUME q + n < size PROVE FALSE
        BY <2>5
      <4>1. n \in 0 .. L - 1
        BY <2>5
      <4>4. q + n < BlockSize /\ q + n < q + L + 1
        BY <2>5, <4>1
      <4>5. q + n < end
        BY <2>5, <4>4
      <4>2. base + (q + n) = base + q + n
        BY <2>5, <2>6
      <4> QED
        BY <2>7, <2>10, <4>1, <4>2, <4>5
    <3>2. end < q + L + 1
      BY <2>5, <3>1
    <3> QED
      BY <2>5, <3>1, <3>2
  <2>13. n = IF L <= BlockSize - q THEN L ELSE BlockSize - q
    BY <2>5, <2>11, <2>12
  <2>14. \A j \in 1 .. n : s.data[base + q + j - 1] = m[j]
    <3> SUFFICES ASSUME NEW j \in 1 .. n PROVE s.data[base + q + j - 1] = m[j]
      OBVIOUS
    <3>1. j - 1 \in 0 .. L - 1 /\ (j - 1) + 1 = j /\ base + (q + (j - 1)) = base + q + j - 1
      BY <2>5, <2>6, <2>11
    <3>2. q + (j - 1) < end
      BY <2>5, <2>11
    <3> QED
      BY <2>7, <3>1, <3>2
  <2>15. [k \in 1 .. n |-> s.data[base + q + k - 1]] = Stored(msgs, ends, c)
    <3>1. SubSeq(m, 1, n) = [k \in 1 .. n |-> m[k]]
      BY <2>4, <2>5, <2>11 DEF L
    <3>2. Stored(msgs, ends, c) = SubSeq(m, 1, n)
      BY <2>2, <2>13 DEF Stored, Room, L, m
    <3> QED
      BY <2>14, <3>1, <3>2
  <2>16. Place(msgs, ends, q + n, c)
    <3>1. CASE q + L < BlockSize
      <4>1. n = L /\ q + n = end - 1 /\ end = q + L + 1
        BY <2>5, <2>11, <2>12, <3>1
      <4> QED
        BY <2>2, <4>1 DEF Place, end, L, m, N
    <3>2. CASE ~(q + L < BlockSize)
      <4>1. q + n = end
        BY <2>5, <2>11, <2>12, <3>2
      <4> QED
        BY <2>2, <4>1 DEF Place, end, N
    <3> QED
      BY <3>1, <3>2
  <2>17. m # <<>>
    <3>1. L # 0
      BY <1>3, <2>5, <2>11
    <3> QED
      BY <3>1 DEF L
  <2>18. Counted(msgs, c) = Counted(msgs, b) + 1
    <3>1. Counted(msgs, c) = Counted(msgs, c - 1) + IF msgs[c] # <<>> THEN 1 ELSE 0
      BY <2>2, CountedNext
    <3> QED
      BY <2>2, <2>17, <3>1 DEF m
  <2>19. Nth(msgs, ends, c, Counted(msgs, c))
    <3>1. ends[c - 1] < BlockSize
      BY <2>1, <2>2, <2>5
    <3> QED
      BY <2>2, <2>17, <3>1 DEF Nth, N, m
  <2> QED
    BY <1>3, <2>15, <2>16, <2>18, <2>19 DEF base
<1> QED
  BY <1>2, <1>3

(* A message written at the end of the file is the next of the journal,    *)
(* even if the block has no room for it, or for some of it.                *)
LEMMA AppendsMessage ==
  ASSUME NEW s \in Tables, NEW msgs \in Seq(Texts), NEW ends, Laid(s, msgs, ends),
         Lookup(s, Box) # None,
         NEW h \in s.opened, s.file[h].inum = Lookup(s, Box),
         s.file[h].offset = InodeOf(s).size, NEW m \in Texts
  PROVE  LET r == Write(s, h, Append(m, Nul))
             t == r.fs
         IN \/ t = s /\ r.ret = None
            \/ /\ r.ret # None
               /\ t.dir = s.dir /\ t.opened = s.opened
               /\ t.file[h].inum = s.file[h].inum /\ t.file[h].offset = InodeOf(t).size
               /\ \A g \in Handles \ {h} : t.file[g] = s.file[g]
               /\ \E e : Laid(t, Append(msgs, m), e) /\ \A k \in 0 .. Len(msgs) : e[k] = ends[k]
<1> DEFINE r == Write(s, h, Append(m, Nul))
           t == r.fs
           i == Lookup(s, Box)
           size == InodeOf(s).size
           line == Append(m, Nul)
           n == IF Len(line) <= BlockSize - size THEN Len(line) ELSE BlockSize - size
           N == Len(msgs)
           new == Append(msgs, m)
           e == [k \in 0 .. N + 1 |-> IF k <= N THEN ends[k] ELSE size + n]
<1>1. /\ line \in Seq(Bytes) /\ Len(line) = Len(m) + 1 /\ Len(m) \in Nat
      /\ N \in Nat /\ new \in Seq(Texts) /\ Len(new) = N + 1 /\ new[N + 1] = m
      /\ \A k \in 1 .. N : new[k] = msgs[k]
  <2>1. m \in Seq(Bytes) /\ Nul \in Bytes
    BY Sorts
  <2> QED
    BY <2>1
<1>2. /\ ends \in [0 .. N -> 0 .. BlockSize] /\ ends[0] = 0
      /\ \A k \in 1 .. N :
           /\ ends[k] = IF ends[k - 1] + Len(msgs[k]) < BlockSize
                          THEN ends[k - 1] + Len(msgs[k]) + 1 ELSE BlockSize
           /\ \A j \in ends[k - 1] .. ends[k] - 1 :
                s.data[BaseOf(s) + j] = Append(msgs[k], Nul)[j - ends[k - 1] + 1]
      /\ \A j, k \in 0 .. N : j <= k => ends[j] <= ends[k]
      /\ size = ends[N]
      /\ size > 0 => InodeOf(s).block \in Blocks
      /\ \A p \in DOMAIN s.data : p \notin BaseOf(s) .. BaseOf(s) + size - 1 => s.data[p] = Nul
  BY DEF Laid
<1>3. size \in Nat /\ size <= BlockSize /\ BlockSize \in Nat
  BY <1>1, <1>2, Sizes
<1>4. /\ i \in Inums /\ InodeOf(s) = s.inode[i] /\ BaseOf(s) \in Int
  <2>1. i \in Inums
    BY LookupType, Sizes
  <2>2. s.inode[i] \in Inodes
    BY <2>1 DEF Tables
  <2>0. \A b \in Blocks \cup {None} : b \in Int
    BY Sizes
  <2>3. s.inode[i].block \in Int
    <3> HIDE DEF i
    <3> QED
      BY <2>0, <2>2 DEF Inodes
  <2> HIDE DEF i
  <2>4. InodeOf(s) = s.inode[i]
    BY DEF InodeOf, i
  <2> QED
    BY <2>1, <2>3, <2>4, Sizes DEF BaseOf
<1>14. n \in Nat /\ size + n <= BlockSize
  <2> HIDE DEF size, line
  <2> QED
    BY <1>1, <1>3
<1>5. n = IF size + Len(m) < BlockSize THEN Len(m) + 1 ELSE BlockSize - size
  <2> HIDE DEF size, line
  <2> QED
    BY <1>1, <1>3
<1>6. \/ t = s /\ r.ret = None
      \/ t = s /\ r.ret = 0 /\ n = 0
      \/ r.ret = n /\ n > 0 /\ \E at : Appended(s, t, h, i, line, n, at)
  <2> HIDE DEF line, i
  <2>1. /\ i = s.file[h].inum /\ size = s.inode[i].size /\ s.file[h].offset = size
        /\ size > 0 => s.inode[i].block \in Blocks
    BY <1>2, <1>4 DEF i
  <2>2. line \in Seq(Bytes)
    BY <1>1
  <2>3. r = Write(s, h, line) /\ t = r.fs
    BY DEF line
  <2> HIDE DEF size, r, t
  <2> QED
    BY <2>1, <2>2, <2>3, WriteAtEnd
<1> HIDE DEF size, n, e, N, new, r, t, i
<1>7. /\ e \in [0 .. N + 1 -> 0 .. BlockSize] /\ e[0] = 0
      /\ \A k \in 0 .. N : e[k] = ends[k]
      /\ e[N + 1] = size + n /\ (N + 1) - 1 = N
  <2>1. size + n \in 0 .. BlockSize
    BY <1>1, <1>3, <1>14
  <2> QED
    BY <1>1, <1>2, <2>1 DEF e
<1>8. \A j, k \in 0 .. N + 1 : j <= k => e[j] <= e[k]
  <2> SUFFICES ASSUME NEW j \in 0 .. N + 1, NEW k \in 0 .. N + 1, j <= k PROVE e[j] <= e[k]
    OBVIOUS
  <2>1. CASE k \in 0 .. N
    <3>1. j \in 0 .. N
      BY <1>1, <2>1
    <3>2. ends[j] <= ends[k]
      BY <1>2, <2>1, <3>1
    <3> QED
      BY <1>7, <2>1, <3>1, <3>2
  <2>2. CASE k = N + 1 /\ j = N + 1
    BY <1>3, <1>14, <1>7, <2>2
  <2>3. CASE k = N + 1 /\ j \in 0 .. N
    <3>1. ends[j] <= size /\ ends[j] \in Int
      BY <1>1, <1>2, <2>3
    <3> QED
      BY <1>3, <1>14, <1>7, <2>3, <3>1
  <2> QED
    BY <1>1, <2>1, <2>2, <2>3
<1>9. \A k \in 1 .. N + 1 : e[k] = IF e[k - 1] + Len(new[k]) < BlockSize
                                     THEN e[k - 1] + Len(new[k]) + 1 ELSE BlockSize
  <2> SUFFICES ASSUME NEW k \in 1 .. N + 1
               PROVE  e[k] = IF e[k - 1] + Len(new[k]) < BlockSize
                               THEN e[k - 1] + Len(new[k]) + 1 ELSE BlockSize
    OBVIOUS
  <2>1. CASE k \in 1 .. N
    <3>1. k \in 0 .. N /\ k - 1 \in 0 .. N
      BY <1>1, <2>1
    <3> QED
      BY <1>1, <1>2, <1>7, <2>1, <3>1
  <2>2. CASE k = N + 1
    <3>1. e[k - 1] = size /\ new[k] = m
      BY <1>1, <1>2, <1>7, <2>2
    <3> QED
      BY <1>1, <1>3, <1>5, <1>14, <1>7, <2>2, <3>1
  <2> QED
    BY <1>1, <2>1, <2>2
<1>10. ASSUME t.dir = s.dir, InodeOf(t).size = size + n,
              size + n > 0 => InodeOf(t).block \in Blocks,
              \A p \in DOMAIN t.data :
                p \notin BaseOf(t) .. BaseOf(t) + (size + n) - 1 => t.data[p] = Nul,
              \A k \in 1 .. N : \A j \in ends[k - 1] .. ends[k] - 1 :
                t.data[BaseOf(t) + j] = s.data[BaseOf(s) + j],
              \A j \in size .. size + n - 1 : t.data[BaseOf(t) + j] = line[j - size + 1]
       PROVE  Laid(t, new, e)
  <2>1. ASSUME NEW k \in 1 .. N + 1, NEW j \in e[k - 1] .. e[k] - 1
        PROVE  t.data[BaseOf(t) + j] = Append(new[k], Nul)[j - e[k - 1] + 1]
    <3>1. CASE k \in 1 .. N
      <4>1. k \in 0 .. N /\ k - 1 \in 0 .. N
        BY <1>1, <3>1
      <4>2. e[k - 1] = ends[k - 1] /\ e[k] = ends[k] /\ new[k] = msgs[k]
        BY <1>1, <1>7, <3>1, <4>1
      <4>3. j \in ends[k - 1] .. ends[k] - 1
        BY <2>1, <4>2
      <4>4. t.data[BaseOf(t) + j] = s.data[BaseOf(s) + j]
        BY <1>10, <3>1, <4>3
      <4> QED
        BY <1>2, <3>1, <4>2, <4>3, <4>4
    <3>2. CASE k = N + 1
      <4>1. e[k - 1] = size /\ e[k] = size + n /\ new[k] = m
        BY <1>1, <1>2, <1>7, <3>2
      <4>2. t.data[BaseOf(t) + j] = line[j - size + 1]
        <5>1. j \in size .. size + n - 1
          BY <1>3, <1>14, <2>1, <4>1
        <5> HIDE DEF line
        <5> QED
          BY <1>10, <5>1
      <4> QED
        BY <4>1, <4>2
    <3>3. k \in 1 .. N \/ k = N + 1
      BY <1>1
    <3> QED
      BY <3>1, <3>2, <3>3
  <2>2. Len(new) = N + 1 /\ InodeOf(t).size = e[N + 1]
    BY <1>1, <1>7, <1>10
  <2> HIDE DEF line
  <2> QED
    BY <1>7, <1>8, <1>9, <1>10, <2>1, <2>2 DEF Laid
<1>11. CASE t = s /\ r.ret = 0 /\ n = 0
  <2>1. Laid(t, new, e)
    <3>1. size + n = size /\ size .. size + n - 1 = {}
      BY <1>3, <1>11
    <3>2. \A p \in DOMAIN t.data :
                p \notin BaseOf(t) .. BaseOf(t) + (size + n) - 1 => t.data[p] = Nul
      BY <1>2, <1>11, <3>1
    <3>3. InodeOf(t).size = size + n /\ (size + n > 0 => InodeOf(t).block \in Blocks)
      BY <1>2, <1>11, <3>1 DEF size
    <3> QED
      BY <1>10, <1>11, <3>1, <3>2, <3>3
  <2>2. t.file[h].offset = InodeOf(t).size
    BY <1>11
  <2> QED
    BY <1>7, <1>11, <2>1, <2>2, Sizes DEF r, t, new, N
<1>12. CASE r.ret = n /\ n > 0 /\ \E at : Appended(s, t, h, i, line, n, at)
  <2>0. /\ t.dir = s.dir /\ t.opened = s.opened
        /\ t.inode[i].block \in Blocks
        /\ size > 0 => t.inode[i].block = s.inode[i].block
        /\ t.inode[i].size = size + n
        /\ t.file[h].inum = i /\ t.file[h].offset = size + n
        /\ \A g \in Handles \ {h} : t.file[g] = s.file[g]
        /\ t.data = [p \in DOMAIN s.data |->
                       IF p \in t.inode[i].block * BlockSize + size
                                .. t.inode[i].block * BlockSize + size + n - 1
                         THEN line[p - (t.inode[i].block * BlockSize + size) + 1]
                         ELSE s.data[p]]
    <3> HIDE DEF line
    <3>1. size = s.inode[i].size
      BY <1>4 DEF size
    <3> QED
      BY <1>12, <3>1 DEF Appended
  <2> DEFINE base == BaseOf(t)
             at == base + size
  <2>1. InodeOf(t) = t.inode[i] /\ base = t.inode[i].block * BlockSize
    BY <2>0, LookupSame DEF InodeOf, BaseOf, i
  <2>2. base \in Nat /\ \A j \in 0 .. BlockSize - 1 : base + j \in DOMAIN s.data
    <3>1. DOMAIN s.data = 0 .. MaxBlocks * BlockSize - 1
      BY DEF Tables
    <3>2. 0 \in 0 .. BlockSize - 1
      BY Sizes
    <3> HIDE DEF base
    <3> QED
      BY <2>0, <2>1, <3>1, <3>2, BlockInside
  <2>3. t.data = [p \in DOMAIN s.data |-> IF p \in at .. at + n - 1
                                            THEN line[p - at + 1] ELSE s.data[p]]
    BY <2>0, <2>1
  <2>4. size > 0 => BaseOf(s) = base
    BY <1>4, <2>0, <2>1 DEF BaseOf
  <2>5. n > 0 /\ size + n <= BlockSize
    BY <1>3, <1>12, <1>14
  <2>6. DOMAIN s.data \subseteq Int
    <3>1. MaxBlocks * BlockSize - 1 \in Int
      BY Sizes
    <3> QED
      BY <3>1 DEF Tables
  <2>14. at = base + size /\ at \in Nat
    <3> HIDE DEF base
    <3> QED
      BY <1>3, <2>2
  <2> HIDE DEF base, line, at
  <2>7. ASSUME NEW p \in DOMAIN t.data, p \notin base .. base + (size + n) - 1
        PROVE  t.data[p] = Nul
    <3>1. p \in DOMAIN s.data /\ p \in Int
      BY <2>3, <2>6
    <3>2. p \notin at .. at + n - 1
      BY <1>3, <1>14, <2>2, <2>7, <2>14, <3>1
    <3>3. p \notin BaseOf(s) .. BaseOf(s) + size - 1
      <4>1. CASE size > 0
        BY <1>3, <1>14, <2>2, <2>4, <2>7, <3>1, <4>1
      <4>2. CASE size = 0
        BY <1>4, <3>1, <4>2
      <4> QED
        BY <1>3, <4>1, <4>2
    <3> QED
      BY <1>2, <2>3, <3>1, <3>2, <3>3
  <2>8. ASSUME NEW k \in 1 .. N, NEW j \in ends[k - 1] .. ends[k] - 1
        PROVE  t.data[base + j] = s.data[BaseOf(s) + j]
    <3>1. k - 1 \in 0 .. N /\ k \in 0 .. N /\ N \in 0 .. N
      BY <1>1
    <3>2. j \in 0 .. size - 1 /\ size > 0
      <4>1. ends[k - 1] \in Nat /\ ends[k] \in Nat /\ ends[k] <= size
        BY <1>1, <1>2, <3>1
      <4> QED
        BY <1>3, <2>8, <4>1
    <3>3. base + j \in DOMAIN s.data
      BY <1>3, <2>2, <3>2
    <3>4. base + j \notin at .. at + n - 1
      BY <1>3, <2>2, <2>14, <3>2
    <3> QED
      BY <2>3, <2>4, <3>2, <3>3, <3>4
  <2>9. ASSUME NEW j \in size .. size + n - 1
        PROVE  t.data[base + j] = line[j - size + 1]
    <3>1. j \in 0 .. BlockSize - 1
      BY <1>3, <1>14, <2>5
    <3>2. base + j \in DOMAIN s.data
      BY <2>2, <3>1
    <3>3. base + j \in at .. at + n - 1
      BY <1>3, <1>14, <2>2, <2>14
    <3>4. (base + j) - at + 1 = j - size + 1
      BY <1>3, <2>2, <2>14, <3>1
    <3> QED
      BY <2>3, <3>2, <3>3, <3>4
  <2>10. Laid(t, new, e)
    BY <1>10, <2>0, <2>1, <2>7, <2>8, <2>9 DEF base, at
  <2>11. r.ret # None
    BY <1>12, <1>14, Sizes
  <2>12. t.file[h].offset = InodeOf(t).size /\ t.file[h].inum = s.file[h].inum
    BY <2>0, <2>1 DEF i
  <2>13. t.dir = s.dir /\ t.opened = s.opened /\ \A g \in Handles \ {h} : t.file[g] = s.file[g]
    BY <2>0
  <2> QED
    BY <1>7, <2>10, <2>11, <2>12, <2>13 DEF r, t, new, N, line
<1>13. CASE t = s /\ r.ret = None
  BY <1>13 DEF t, r
<1> QED
  BY <1>6, <1>11, <1>12, <1>13

(* What can stand behind the k-th message a subscriber hands on.           *)
Behind(k) == IF k = 1 THEN Garbage \cup {<<>>} ELSE {<<>>}

(* A client has got the messages that are not empty, from the first on, as *)
(* the block holds them.                                                   *)
Heard(msgs, ends, got) ==
  \A k \in 1 .. Len(got) : \E i, g : /\ Nth(msgs, ends, i, k) /\ g \in Behind(k)
                                     /\ got[k] = Stored(msgs, ends, i) \o g

(* Its subscriber's offset is behind the last message handed on; or it is  *)
(* behind the next, which the subscriber is about to send.                 *)
Follows(msgs, ends, off, got, sending, said) ==
  \E c : /\ Place(msgs, ends, off, c)
         /\ IF sending THEN /\ Counted(msgs, c) = Len(got) + 1
                            /\ Nth(msgs, ends, c, Len(got) + 1)
                            /\ said = Stored(msgs, ends, c)
            ELSE Counted(msgs, c) = Len(got)

(* The next message published disturbs no reader.                          *)
LEMMA JournalGrows ==
  ASSUME NEW msgs \in Seq(Texts), NEW m \in Texts, NEW ends, NEW e,
         \A k \in 0 .. Len(msgs) : e[k] = ends[k]
  PROVE  LET new == Append(msgs, m)
         IN /\ \A got : Heard(msgs, ends, got) => Heard(new, e, got)
            /\ \A off, got, sending, said : Follows(msgs, ends, off, got, sending, said)
                                             => Follows(new, e, off, got, sending, said)
<1> DEFINE new == Append(msgs, m)
           N == Len(msgs)
<1>1. N \in Nat /\ Len(new) = N + 1 /\ \A k \in 1 .. N : new[k] = msgs[k]
  OBVIOUS
<1> HIDE DEF new, N
<1>2. \A c \in 0 .. N : Counted(new, c) = Counted(msgs, c)
  <2> SUFFICES ASSUME NEW c \in 0 .. N PROVE Counted(new, c) = Counted(msgs, c)
    OBVIOUS
  <2>1. {j \in 1 .. c : new[j] # <<>>} = {j \in 1 .. c : msgs[j] # <<>>}
    BY <1>1
  <2> QED
    BY <2>1 DEF Counted
<1>3. \A c \in 1 .. N : /\ c - 1 \in 0 .. N /\ c \in 0 .. N
                        /\ e[c - 1] = ends[c - 1] /\ e[c] = ends[c] /\ new[c] = msgs[c]
  BY <1>1 DEF N
<1>4. 1 .. N \subseteq 1 .. Len(new) /\ 0 .. N \subseteq 0 .. Len(new)
  BY <1>1
<1>5. ASSUME NEW i, NEW k, Nth(msgs, ends, i, k)
      PROVE  Nth(new, e, i, k) /\ Stored(new, e, i) = Stored(msgs, ends, i)
  <2>1. i \in 1 .. N
    BY <1>5 DEF Nth, N
  <2> QED
    BY <1>2, <1>3, <1>4, <1>5, <2>1 DEF Nth, Stored, Room
<1>6. ASSUME NEW off, NEW c, Place(msgs, ends, off, c)
      PROVE  Place(new, e, off, c) /\ Counted(new, c) = Counted(msgs, c)
  <2>1. c \in 0 .. N
    BY <1>6 DEF Place, N
  <2>2. c > 0 => c \in 1 .. N
    BY <1>1, <2>1
  <2>3. e[c] = ends[c]
    BY <2>1 DEF N
  <2> QED
    BY <1>2, <1>3, <1>4, <1>6, <2>1, <2>2, <2>3 DEF Place
<1>7. ASSUME NEW got, Heard(msgs, ends, got) PROVE Heard(new, e, got)
  BY <1>5, <1>7 DEF Heard
<1>8. ASSUME NEW off, NEW got, NEW sending, NEW said,
             Follows(msgs, ends, off, got, sending, said)
      PROVE  Follows(new, e, off, got, sending, said)
  <2>1. PICK c : /\ Place(msgs, ends, off, c)
                 /\ IF sending THEN /\ Counted(msgs, c) = Len(got) + 1
                                    /\ Nth(msgs, ends, c, Len(got) + 1)
                                    /\ said = Stored(msgs, ends, c)
                    ELSE Counted(msgs, c) = Len(got)
    BY <1>8 DEF Follows
  <2> QED
    BY <1>5, <1>6, <2>1 DEF Follows
<1> QED
  BY <1>7, <1>8 DEF new

(* tfs_read hands the subscriber the message after those it has had, as    *)
(* the block holds it, or nothing.                                         *)
LEMMA ReadsMessage ==
  ASSUME NEW s \in Tables, NEW msgs \in Seq(Texts), NEW ends, Laid(s, msgs, ends),
         NEW h \in s.opened, s.file[h].inum = Lookup(s, Box),
         NEW got \in Seq(Seq(Bytes)), NEW said,
         Follows(msgs, ends, s.file[h].offset, got, FALSE, said)
  PROVE  LET r == Read(s, h, BlockSize)
         IN Follows(msgs, ends, r.fs.file[h].offset, got, r.ret > 0, r.out)
<1> DEFINE r == Read(s, h, BlockSize)
           off == s.file[h].offset
           size == InodeOf(s).size
           base == BaseOf(s)
<1>1. PICK c : Place(msgs, ends, off, c) /\ Counted(msgs, c) = Len(got)
  BY DEF Follows
<1>2. InodeOf(s) = s.inode[s.file[h].inum] /\ base = InodeOf(s).block * BlockSize
  BY DEF InodeOf, BaseOf
<1>3. off \in Nat /\ off <= size
  <2>1. c \in 0 .. Len(msgs) /\ Len(msgs) \in 0 .. Len(msgs)
    BY <1>1 DEF Place
  <2>2. ends[c] \in 0 .. BlockSize /\ ends[c] <= size /\ size \in 0 .. BlockSize
    BY <2>1 DEF Laid
  <2>3. off = ends[c] \/ off = ends[c] - 1
    BY <1>1 DEF Place
  <2>4. off \in Nat
    BY DEF Tables
  <2> HIDE DEF off, size
  <2> QED
    BY <2>2, <2>3, <2>4, Sizes
<1>4. /\ size > 0 => InodeOf(s).block \in Blocks
      /\ \A p \in DOMAIN s.data : p \notin base .. base + size - 1 => s.data[p] = Nul
  BY DEF Laid
<1>5. \/ r.fs = s /\ ~(r.ret > 0)
      \/ HandedOut(s, base, size, off, h, r)
  <2>1. /\ size = s.inode[s.file[h].inum].size
        /\ base = s.inode[s.file[h].inum].block * BlockSize
        /\ InodeOf(s).block = s.inode[s.file[h].inum].block
    BY <1>2
  <2>2. r = Read(s, h, BlockSize) /\ off = s.file[h].offset
    OBVIOUS
  <2> HIDE DEF r, size, base, off
  <2> QED
    BY <1>3, <1>4, <2>1, <2>2, ReadStops
<1> HIDE DEF r, off, size, base
<1>6. CASE r.fs = s /\ ~(r.ret > 0)
  BY <1>1, <1>6 DEF Follows, r, off
<1>7. CASE HandedOut(s, base, size, off, h, r)
  <2> DEFINE q == IF s.data[base + off] = Nul THEN off + 1 ELSE off
  <2> HIDE DEF q
  <2>0. off < size
    BY <1>7 DEF HandedOut
  <2>1. PICK m \in Nat : /\ q + m <= size
                         /\ \A k \in q .. q + m - 1 : s.data[base + k] # Nul
                         /\ q + m < size => s.data[base + q + m] = Nul
                         /\ r.ret = m
                         /\ r.out = [k \in 1 .. m |-> s.data[base + q + k - 1]]
                         /\ r.fs.file[h].offset = q + m
    BY <1>7 DEF HandedOut, q
  <2>2. PICK b \in 0 .. Len(msgs) : q = ends[b] /\ Counted(msgs, b) = Counted(msgs, c)
    <3>1. q = IF s.data[BaseOf(s) + off] = Nul THEN off + 1 ELSE off
      BY DEF q, base
    <3>2. off < InodeOf(s).size
      BY <2>0 DEF size
    <3> QED
      BY <1>1, <3>1, <3>2, SkipsTerminator
  <2>3. PICK d : /\ Place(msgs, ends, q + m, d)
                 /\ IF m = 0 THEN Counted(msgs, d) = Counted(msgs, b)
                    ELSE /\ Counted(msgs, d) = Counted(msgs, b) + 1
                         /\ Nth(msgs, ends, d, Counted(msgs, d))
                         /\ [k \in 1 .. m |-> s.data[BaseOf(s) + q + k - 1]]
                              = Stored(msgs, ends, d)
    <3>1. Piece(s, ends[b], m)
      BY <2>1, <2>2 DEF Piece, size, base
    <3> QED
      BY <2>2, <3>1, ReadsNext
  <2> HIDE DEF q
  <2> DEFINE moved == r.fs.file[h].offset
  <2>6. Place(msgs, ends, moved, d) /\ r.ret = m
    BY <2>1, <2>3
  <2> HIDE DEF moved
  <2>4. CASE m = 0
    <3>1. ~(r.ret > 0) /\ Counted(msgs, d) = Len(got)
      BY <1>1, <2>2, <2>3, <2>4, <2>6
    <3> QED
      BY <2>6, <3>1 DEF Follows, moved, r
  <2>5. CASE m # 0
    <3>1. r.ret > 0
      BY <2>1, <2>5
    <3>2. /\ Counted(msgs, d) = Len(got) + 1 /\ Nth(msgs, ends, d, Len(got) + 1)
          /\ r.out = Stored(msgs, ends, d)
      BY <1>1, <2>1, <2>2, <2>3, <2>5 DEF base
    <3> QED
      BY <2>6, <3>1, <3>2 DEF Follows, moved, r
  <2> QED
    BY <2>4, <2>5 DEF r, off
<1> QED
  BY <1>5, <1>6, <1>7 DEF r

(* The client gets the message next in order.                              *)
LEMMA SendsMessage ==
  ASSUME NEW msgs, NEW ends, NEW off, NEW got \in Seq(Seq(Bytes)), NEW said \in Seq(Bytes),
         Heard(msgs, ends, got), Follows(msgs, ends, off, got, TRUE, said),
         NEW g \in IF got = <<>> THEN Garbage ELSE {<<>>}
  PROVE  LET more == Append(got, said \o g)
         IN Heard(msgs, ends, more) /\ \A x : Follows(msgs, ends, off, more, FALSE, x)
<1> DEFINE more == Append(got, said \o g)
           n == Len(got)
<1>1. PICK c : /\ Place(msgs, ends, off, c) /\ Counted(msgs, c) = n + 1
               /\ Nth(msgs, ends, c, n + 1) /\ said = Stored(msgs, ends, c)
  BY DEF Follows
<1>2. g \in Seq(Bytes) /\ said \o g \in Seq(Bytes)
  <2>1. g \in Seq(Bytes)
    BY Sorts
  <2> QED
    BY <2>1
<1>3. n \in Nat /\ Len(more) = n + 1 /\ more[n + 1] = said \o g /\ \A k \in 1 .. n : more[k] = got[k]
  BY <1>2
<1>4. g \in Behind(n + 1)
  <2>1. CASE got = <<>>
    BY <2>1 DEF Behind
  <2>2. CASE got # <<>>
    <3>1. n + 1 # 1
      BY <2>2
    <3> QED
      BY <2>2, <3>1 DEF Behind
  <2> QED
    BY <2>1, <2>2
<1> HIDE DEF more, n
<1>5. Heard(msgs, ends, more)
  <2> SUFFICES ASSUME NEW k \in 1 .. n + 1
               PROVE  \E i, f : /\ Nth(msgs, ends, i, k) /\ f \in Behind(k)
                                /\ more[k] = Stored(msgs, ends, i) \o f
    BY <1>3 DEF Heard
  <2>1. CASE k \in 1 .. n
    BY <1>3, <2>1 DEF Heard, n
  <2>2. CASE k = n + 1
    BY <1>1, <1>3, <1>4, <2>2
  <2>3. k \in 1 .. n \/ k = n + 1
    BY <1>3
  <2> QED
    BY <2>1, <2>2, <2>3
<1>6. \A x : Follows(msgs, ends, off, more, FALSE, x)
  BY <1>1, <1>3 DEF Follows
<1> QED
  BY <1>5, <1>6 DEF more

(* n_pub lets in one publisher at a time, and none while it is counted.    *)
Alone == /\ \A p, q \in Publishers : pc[p] # "idle" /\ pc[q] # "idle" => p = q
         /\ n_pub = 0 => \A p \in Publishers : pc[p] = "idle"

(* A publisher is let in at n_pub = 0, and its end counts it out.         *)
LEMMA NextAlone == TypeInv /\ Alone /\ [Next]_vars => Alone'
<1> USE Sorts
<1> SUFFICES ASSUME TypeInv, Alone, [Next]_vars PROVE Alone'
  OBVIOUS
<1>0. pc \in [Workers -> PubPlaces \cup SubPlaces]
  BY DEF TypeInv
<1>1. ASSUME UNCHANGED n_pub, \A p \in Publishers : pc'[p] # "idle" => pc[p] # "idle"
      PROVE  Alone'
  BY <1>1 DEF Alone
<1>2. ASSUME NEW p \in Publishers, NEW from, NEW to, Goto(p, from, to),
             from # "idle", UNCHANGED n_pub
      PROVE  Alone'
  BY <1>0, <1>1, <1>2 DEF Goto
<1>3. ASSUME NEW p \in Publishers, Publish(p) \/ process_pub(p) \/ ClientSends(p)
      PROVE  Alone'
  <2>1. CASE Publish(p)
    BY <1>0, <2>1 DEF Publish, Goto, Alone
  <2>2. CASE PubOpen(p)
    BY <1>2, <2>2 DEF PubOpen
  <2>3. CASE PubRead(p)
    BY <1>2, <2>3 DEF PubRead
  <2>4. CASE PubEof(p)
    BY <1>2, <2>4 DEF PubEof
  <2>5. CASE PubWrite(p)
    BY <1>2, <2>5 DEF PubWrite
  <2>6. CASE PubBroadcast(p)
    BY <1>0, <1>1, <2>6 DEF PubBroadcast
  <2>7. CASE PubClose(p)
    BY <1>0, <2>7 DEF PubClose, Goto, Alone
  <2>8. CASE ClientSends(p)
    BY <1>1, <2>8 DEF ClientSends
  <2> QED
    BY <1>3, <2>1, <2>2, <2>3, <2>4, <2>5, <2>6, <2>7, <2>8 DEF process_pub
<1>4. ASSUME NEW s \in Subscribers, Subscribe(s) \/ process_sub(s) \/ SpuriousWakeup(s)
      PROVE  Alone'
  <2>1. UNCHANGED n_pub /\ \E to : pc' = [pc EXCEPT ![s] = to]
    BY <1>4 DEF Subscribe, process_sub, SpuriousWakeup, SubOpen, SubLock, SubPoll, SubMore,
                SubRead, SubWait, SubSend, SubBroken, SubUnlock, Goto
  <2> QED
    BY <1>0, <1>1, <2>1
<1>5. ASSUME NEW w \in Workers, ClientLeaves(w) PROVE Alone'
  BY <1>1, <1>5 DEF ClientLeaves
<1>6. CASE UNCHANGED vars
  BY <1>1, <1>6 DEF vars
<1> QED
  BY <1>3, <1>4, <1>5, <1>6 DEF Next

(* Who is in a session has a handle of its own on the box's file, as long  *)
(* as the broker runs.                                                     *)
Sessions ==
  /\ \A w \in Workers :
       /\ handle[w] # None => /\ handle[w] \in fs.opened
                              /\ fs.file[handle[w]].inum = Lookup(fs, Box)
       /\ up /\ pc[w] \notin {"idle", "open"} => handle[w] # None
  /\ \A v, w \in Workers : handle[v] = handle[w] /\ handle[v] # None => v = w

(* What a step does to sessions, the file's contents apart: a worker opens *)
(* the box, closes its handle, or reads or writes with it; or none does.   *)
Opens(w, mode) ==
  LET r == Open(fs, Box, mode)
  IN /\ handle[w] = None
     /\ fs' = r.fs /\ handle' = [handle EXCEPT ![w] = r.ret]
     /\ \E to : /\ pc' = [pc EXCEPT ![w] = to]
                /\ to # "send" /\ (up' /\ to \notin {"idle", "open"} => r.ret # None)
     /\ up' => up
     /\ UNCHANGED <<sent, text, received>>

Closes(w) ==
  /\ fs' = Close(fs, handle[w]).fs /\ handle' = [handle EXCEPT ![w] = None]
  /\ pc' = [pc EXCEPT ![w] = "idle"]
  /\ UNCHANGED <<up, sent>>

Moves(w) ==
  /\ up /\ pc[w] \notin {"idle", "open"}
  /\ fs'.dir = fs.dir /\ fs'.opened = fs.opened
  /\ \A h \in Handles : /\ fs'.file[h].inum = fs.file[h].inum
                        /\ h # handle[w] => fs'.file[h] = fs.file[h]
  /\ \E to : pc' = [pc EXCEPT ![w] = to] /\ to \notin {"idle", "open"}
  /\ UNCHANGED <<up, handle, received>>

Rests ==
  /\ UNCHANGED <<fs, up, handle, sent, received>>
  /\ \A w \in Workers : pc'[w] \in {"idle", "open"} <=> pc[w] \in {"idle", "open"}
  /\ \A s \in Subscribers : text'[s] = text[s] /\ (pc'[s] = "send" <=> pc[s] = "send")

(* Every step is one of these. *)
LEMMA StepKinds ==
  ASSUME TypeInv, HandlesOwned, [Next]_vars
  PROVE  \/ Rests
         \/ \E p \in Publishers : Opens(p, {"append"})
         \/ \E s \in Subscribers : Opens(s, {})
         \/ \E p \in Publishers : PubClose(p) /\ Closes(p)
         \/ \E s \in Subscribers : SubBroken(s) /\ Closes(s)
         \/ \E p \in Publishers : PubWrite(p) /\ Moves(p)
         \/ \E s \in Subscribers : \E from, none :
              SubRead(s, from, none) /\ from # "send" /\ none # "send" /\ Moves(s)
         \/ \E s \in Subscribers : SubSend(s)
<1> USE Sorts
<1>0. /\ fs \in Tables /\ NoLinks(fs) /\ pc \in [Workers -> PubPlaces \cup SubPlaces]
      /\ text \in [Workers -> Seq(Bytes)] /\ handle \in [Workers -> Handles \cup {None}]
  BY DEF TypeInv, TypeOK
<1>1. ASSUME NEW w \in Workers, NEW from, NEW to, Goto(w, from, to),
             from \in {"idle", "open"} <=> to \in {"idle", "open"},
             from # "send", to # "send",
             UNCHANGED <<fs, up, handle, sent, received>>,
             \A s \in Subscribers : text'[s] = text[s]
      PROVE  Rests
  BY <1>0, <1>1 DEF Goto, Rests
<1>2. ASSUME UNCHANGED <<fs, up, pc, handle, text, sent, received>> PROVE Rests
  BY <1>2 DEF Rests
<1>3. ASSUME NEW p \in Publishers, Publish(p) \/ process_pub(p) \/ ClientSends(p)
      PROVE  Rests \/ Opens(p, {"append"}) \/ (PubClose(p) /\ Closes(p)) \/ (PubWrite(p) /\ Moves(p))
  <2>1. CASE Publish(p)
    BY <1>1, <2>1 DEF Publish
  <2>2. CASE PubOpen(p)
    <3> DEFINE r == Open(fs, Box, {"append"})
               to == IF r.ret = None THEN "idle" ELSE "read"
    <3>1. /\ pc[p] = "open" /\ pc' = [pc EXCEPT ![p] = to] /\ up /\ up' = up
          /\ fs' = r.fs /\ handle' = [handle EXCEPT ![p] = r.ret]
          /\ UNCHANGED <<sent, text, received>>
      BY <2>2 DEF PubOpen, Goto
    <3>2. handle[p] = None
      BY <3>1 DEF HandlesOwned
    <3>3. to # "send" /\ (to \notin {"idle", "open"} => r.ret # None)
      OBVIOUS
    <3> HIDE DEF to
    <3> QED
      BY <3>1, <3>2, <3>3 DEF Opens
  <2>3. CASE PubRead(p)
    <3>1. \A s \in Subscribers : text'[s] = text[s]
      BY <1>0, <2>3 DEF PubRead
    <3> QED
      BY <1>1, <2>3, <3>1 DEF PubRead
  <2>4. CASE PubEof(p)
    BY <1>1, <2>4 DEF PubEof
  <2>5. CASE PubWrite(p)
    <3> DEFINE line == Append(text[p], Nul)
               r == Write(fs, handle[p], line)
               to == IF r.ret = None THEN "close" ELSE "broadcast"
    <3>1. /\ pc[p] = "write" /\ pc' = [pc EXCEPT ![p] = to] /\ up /\ up' = up
          /\ fs' = r.fs /\ UNCHANGED <<handle, received>>
      BY <2>5 DEF PubWrite, Goto
    <3>2. to \notin {"idle", "open"}
      OBVIOUS
    <3>3. line \in Seq(Bytes)
      BY <1>0
    <3> HIDE DEF to, line
    <3>4. /\ r.fs.dir = fs.dir /\ r.fs.opened = fs.opened
          /\ \A h \in Handles : /\ r.fs.file[h].inum = fs.file[h].inum
                                /\ h # handle[p] => r.fs.file[h] = fs.file[h]
      BY <1>0, <3>3, WriteMoves
    <3> HIDE DEF r
    <3> QED
      BY <2>5, <3>1, <3>2, <3>4 DEF Moves
  <2>6. CASE PubBroadcast(p)
    BY <1>0, <2>6 DEF PubBroadcast, Rests
  <2>7. CASE PubClose(p)
    BY <2>7 DEF PubClose, Goto, Closes
  <2>8. CASE ClientSends(p)
    BY <1>2, <2>8 DEF ClientSends
  <2> QED
    BY <1>3, <2>1, <2>2, <2>3, <2>4, <2>5, <2>6, <2>7, <2>8 DEF process_pub
<1>4. ASSUME NEW s \in Subscribers, NEW from \in {"poll", "more"}, NEW none \in {"wait", "unlock"},
             SubRead(s, from, none)
      PROVE  Moves(s)
  <2> DEFINE r == Read(fs, handle[s], BlockSize)
             to == IF r.ret > 0 THEN "send" ELSE none
  <2>1. /\ pc[s] = from /\ pc' = [pc EXCEPT ![s] = to] /\ up /\ up' = up
        /\ fs' = r.fs /\ UNCHANGED <<handle, received>>
    BY <1>4 DEF SubRead, Goto
  <2>2. to \notin {"idle", "open"} /\ from \notin {"idle", "open"}
    OBVIOUS
  <2> HIDE DEF to
  <2>3. /\ r.fs.dir = fs.dir /\ r.fs.opened = fs.opened
        /\ \A h \in Handles : /\ r.fs.file[h].inum = fs.file[h].inum
                              /\ h # handle[s] => r.fs.file[h] = fs.file[h]
    <3>1. CASE handle[s] \in fs.opened
      <4>1. handle[s] \in Handles
        BY <1>0, <3>1 DEF Tables
      <4>2. r = Copy(fs, handle[s], ToRead(fs, handle[s], BlockSize))
        BY <3>1 DEF Read
      <4> HIDE DEF r
      <4> QED
        BY <1>0, <4>1, <4>2, CopyMoves
    <3>2. CASE handle[s] \notin fs.opened
      BY <3>2 DEF Read, Return
    <3> QED
      BY <3>1, <3>2
  <2> HIDE DEF r
  <2> QED
    BY <2>1, <2>2, <2>3 DEF Moves
<1>5. ASSUME NEW s \in Subscribers, Subscribe(s) \/ process_sub(s) \/ SpuriousWakeup(s)
      PROVE  \/ Rests \/ Opens(s, {}) \/ (SubBroken(s) /\ Closes(s)) \/ SubSend(s)
             \/ \E from, none :
              SubRead(s, from, none) /\ from # "send" /\ none # "send" /\ Moves(s)
  <2>1. CASE Subscribe(s)
    BY <1>1, <2>1 DEF Subscribe
  <2>2. CASE SubOpen(s)
    <3> DEFINE r == Open(fs, Box, {})
    <3>1. /\ pc[s] = "open" /\ pc' = [pc EXCEPT ![s] = "lock"] /\ up /\ up' = (r.ret # None)
          /\ fs' = r.fs /\ handle' = [handle EXCEPT ![s] = r.ret]
          /\ UNCHANGED <<sent, text, received>>
      BY <2>2 DEF SubOpen, Goto
    <3>2. handle[s] = None
      BY <3>1 DEF HandlesOwned
    <3> QED
      BY <3>1, <3>2 DEF Opens
  <2>3. CASE SubLock(s)
    BY <1>1, <2>3 DEF SubLock
  <2>4. CASE SubPoll(s)
    BY <1>4, <2>4 DEF SubPoll
  <2>5. CASE SubMore(s)
    BY <1>4, <2>5 DEF SubMore
  <2>6. CASE SubWait(s)
    BY <1>1, <2>6 DEF SubWait
  <2>7. CASE SubSend(s)
    BY <2>7
  <2>8. CASE SubBroken(s)
    BY <2>8 DEF SubBroken, Goto, Closes
  <2>9. CASE SubUnlock(s)
    BY <1>1, <2>9 DEF SubUnlock
  <2>10. CASE SpuriousWakeup(s)
    BY <1>1, <2>10 DEF SpuriousWakeup
  <2> QED
    BY <1>5, <2>1, <2>2, <2>3, <2>4, <2>5, <2>6, <2>7, <2>8, <2>9, <2>10 DEF process_sub
<1>6. ASSUME NEW w \in Workers, ClientLeaves(w) PROVE Rests
  BY <1>2, <1>6 DEF ClientLeaves
<1>7. CASE UNCHANGED vars
  BY <1>2, <1>7 DEF vars
<1> QED
  BY <1>3, <1>5, <1>6, <1>7 DEF Next

(* Each keeps to its own handle. *)
LEMMA NextSessions ==
  ASSUME TypeInv, HandlesOwned, Sessions, [Next]_vars
  PROVE  Sessions'
<1> USE Sorts
<1>0. /\ fs \in Tables /\ NoLinks(fs) /\ pc \in [Workers -> PubPlaces \cup SubPlaces]
      /\ handle \in [Workers -> Handles \cup {None}] /\ fs.opened \subseteq Handles
      /\ \A h \in Handles : h # None
      /\ fs'.dir = fs.dir => Lookup(fs', Box) = Lookup(fs, Box)
  BY LookupSame, Sizes DEF TypeInv, TypeOK, Tables
<1>1. CASE Rests
  BY <1>0, <1>1 DEF Rests, Sessions
<1>2. ASSUME NEW w \in Workers, NEW mode, mode \in {{}, {"append"}}, Opens(w, mode)
      PROVE  Sessions'
  <2> DEFINE r == Open(fs, Box, mode)
  <2>1. /\ r.fs.dir = fs.dir
        /\ r.ret \in (Handles \ fs.opened) \cup {None}
        /\ r.ret = None => r.fs = fs
        /\ r.ret # None =>
             /\ r.fs.opened = fs.opened \cup {r.ret}
             /\ r.fs.file = [fs.file EXCEPT ![r.ret] =
                  [inum |-> Lookup(fs, Box),
                   offset |-> IF "append" \in mode THEN fs.inode[Lookup(fs, Box)].size ELSE 0]]
    BY <1>0, <1>2, OpenExisting
  <2>2. PICK to : /\ handle[w] = None /\ fs' = r.fs /\ handle' = [handle EXCEPT ![w] = r.ret]
                  /\ pc' = [pc EXCEPT ![w] = to] /\ (up' => up)
                  /\ up' /\ to \notin {"idle", "open"} => r.ret # None
    BY <1>2 DEF Opens
  <2> HIDE DEF r
  <2>3. DOMAIN fs.file = Handles
    BY <1>0 DEF Tables
  <2>4. CASE r.ret = None
    <3>1. fs' = fs /\ handle' = handle
      BY <1>0, <2>1, <2>2, <2>4
    <3> QED
      BY <1>0, <2>2, <2>4, <3>1 DEF Sessions
  <2>5. CASE r.ret # None
    <3>1. /\ fs'.opened = fs.opened \cup {r.ret}
          /\ fs'.file[r.ret].inum = Lookup(fs, Box)
          /\ \A h \in Handles \ {r.ret} : fs'.file[h] = fs.file[h]
          /\ Lookup(fs', Box) = Lookup(fs, Box)
      BY <1>0, <2>1, <2>2, <2>3, <2>5
    <3>2. \A v \in Workers \ {w} : handle'[v] = handle[v] /\ pc'[v] = pc[v]
      BY <1>0, <2>2
    <3>3. handle'[w] = r.ret /\ r.ret \notin fs.opened
      BY <1>0, <2>1, <2>2, <2>5
    <3>4. ASSUME NEW v \in Workers
          PROVE  /\ handle'[v] # None => /\ handle'[v] \in fs'.opened
                                         /\ fs'.file[handle'[v]].inum = Lookup(fs', Box)
                 /\ up' /\ pc'[v] \notin {"idle", "open"} => handle'[v] # None
      <4>1. CASE v = w
        BY <2>5, <3>1, <3>3, <4>1
      <4>2. CASE v # w
        BY <1>0, <2>2, <3>1, <3>2, <3>3, <4>2 DEF Sessions
      <4> QED
        BY <4>1, <4>2
    <3>5. ASSUME NEW v \in Workers, NEW x \in Workers, handle'[v] = handle'[x], handle'[v] # None
          PROVE  v = x
      BY <3>2, <3>3, <3>5 DEF Sessions
    <3> QED
      BY <3>4, <3>5 DEF Sessions
  <2> QED
    BY <2>4, <2>5
<1>3. ASSUME NEW w \in Workers, Closes(w) PROVE Sessions'
  <2>1. fs'.dir = fs.dir /\ fs'.opened = fs.opened \ {handle[w]} /\ fs'.file = fs.file
    BY <1>3 DEF Closes, Close, Return
  <2>2. \A v \in Workers \ {w} : handle'[v] = handle[v] /\ pc'[v] = pc[v]
    BY <1>0, <1>3 DEF Closes
  <2>3. handle'[w] = None /\ pc'[w] = "idle" /\ up' = up
    BY <1>0, <1>3 DEF Closes
  <2> QED
    BY <1>0, <2>1, <2>2, <2>3 DEF Sessions
<1>4. ASSUME NEW w \in Workers, Moves(w) PROVE Sessions'
  <2>1. PICK to : pc' = [pc EXCEPT ![w] = to] /\ to \notin {"idle", "open"}
    BY <1>4 DEF Moves
  <2>2. /\ up /\ up' = up /\ handle' = handle /\ pc[w] \notin {"idle", "open"}
        /\ Lookup(fs', Box) = Lookup(fs, Box) /\ fs'.opened = fs.opened
        /\ \A h \in Handles : fs'.file[h].inum = fs.file[h].inum
    BY <1>0, <1>4 DEF Moves
  <2> QED
    BY <1>0, <2>1, <2>2 DEF Sessions
<1>5. ASSUME NEW s \in Subscribers, SubSend(s) PROVE Sessions'
  BY <1>0, <1>5 DEF SubSend, Goto, Sessions
<1> QED
  BY <1>1, <1>2, <1>3, <1>4, <1>5, StepKinds

(* The subscribers are readers of a journal of what was sent, each at its  *)
(* own place, and a publisher is at its end.                               *)
Journal(ends) ==
  /\ Laid(fs, sent, ends)
  /\ \A p \in Publishers : handle[p] # None => fs.file[handle[p]].offset = InodeOf(fs).size
  /\ \A s \in Subscribers :
       /\ Heard(sent, ends, received[s])
       /\ handle[s] = None => received[s] = <<>>
       /\ handle[s] # None => Follows(sent, ends, fs.file[handle[s]].offset, received[s],
                                      pc[s] = "send", text[s])

(* A box just made is an empty journal.                                    *)
LEMMA BoxEmpty ==
  LET made == Open(InitialState, Box, {"creat"})
      s == Close(made.fs, made.ret).fs
  IN MaxInodes > 1 => Laid(s, <<>>, [k \in {0} |-> 0])
<1> DEFINE made == Open(InitialState, Box, {"creat"})
           s == Close(made.fs, made.ret).fs
           ends == [k \in {0} |-> 0]
<1> SUFFICES ASSUME MaxInodes > 1 PROVE Laid(s, <<>>, ends)
  OBVIOUS
<1>1. s \in Tables /\ Lookup(s, Box) # None
  BY BoxMade
<1>2. /\ InitialState \in Tables /\ Box \in Names
      /\ \A e \in Entries : InitialState.dir[e].inum = None
      /\ \A p \in DOMAIN InitialState.data : InitialState.data[p] = Nul
  BY InitialStateType, Sorts DEF InitialState
<1>3. Lookup(InitialState, Box) = None
  BY <1>2, LookupFound
<1>4. /\ made.fs.data = InitialState.data
      /\ \A e \in Entries : made.fs.dir[e].inum # None => made.fs.inode[made.fs.dir[e].inum].size = 0
  BY <1>2, <1>3, OpenNewEmpty
<1> HIDE DEF made
<1>5. s.dir = made.fs.dir /\ s.inode = made.fs.inode /\ s.data = made.fs.data
  BY DEF Close, Return
<1> HIDE DEF s
<1>6. InodeOf(s).size = 0
  <2>1. PICK e \in Entries : Lookup(s, Box) = s.dir[e].inum /\ s.dir[e].inum # None
    BY <1>1, LookupFound
  <2> QED
    BY <1>4, <1>5, <2>1 DEF InodeOf
<1>7. \A p \in DOMAIN s.data : s.data[p] = Nul
  BY <1>2, <1>4, <1>5
<1>8. ends \in [0 .. 0 -> 0 .. BlockSize] /\ ends[0] = 0 /\ Len(<<>>) = 0
      /\ \A j, k \in 0 .. 0 : j <= k => ends[j] <= ends[k]
  <2>1. 0 .. 0 = {0}
    OBVIOUS
  <2> QED
    BY <2>1, Sizes
<1>9. 1 .. 0 = {}
  OBVIOUS
<1> HIDE DEF ends
<1> QED
  BY <1>6, <1>7, <1>8, <1>9 DEF Laid

(* What a call leaves of the box if it writes nothing. *)
LEMMA SameJournal ==
  ASSUME NEW s, NEW t, t.dir = s.dir, t.inode = s.inode, t.data = s.data
  PROVE  /\ InodeOf(t) = InodeOf(s)
         /\ \A msgs, ends : Laid(s, msgs, ends) => Laid(t, msgs, ends)
<1>1. InodeOf(t) = InodeOf(s) /\ BaseOf(t) = BaseOf(s)
  BY LookupSame DEF InodeOf, BaseOf
<1>2. ASSUME NEW msgs, NEW ends, Laid(s, msgs, ends) PROVE Laid(t, msgs, ends)
  <2>1. Laid(t, msgs, ends) <=> Laid(s, msgs, ends)
    BY <1>1, Zenon DEF Laid
  <2> QED
    BY <1>2, <2>1
<1> QED
  BY <1>1, <1>2

(* No step loses or disturbs the journal, or a reader's place in it.       *)
LEMMA NextJournal ==
  ASSUME TypeInv, HandlesOwned, Sessions, Alone, NEW ends, Journal(ends), [Next]_vars
  PROVE  \E e : Journal(e)'
<1> USE Sorts
<1>0. /\ fs \in Tables /\ NoLinks(fs) /\ pc \in [Workers -> PubPlaces \cup SubPlaces]
      /\ handle \in [Workers -> Handles \cup {None}] /\ fs.opened \subseteq Handles
      /\ text \in [Workers -> Seq(Bytes)] /\ sent \in Seq(Texts)
      /\ received \in [Subscribers -> Seq(Seq(Bytes))]
      /\ \A h \in Handles : h # None
  BY Sizes DEF TypeInv, TypeOK, Tables
<1>1. /\ Laid(fs, sent, ends)
      /\ \A p \in Publishers : handle[p] # None => fs.file[handle[p]].offset = InodeOf(fs).size
  BY DEF Journal
<1>2. \A s \in Subscribers :
        /\ Heard(sent, ends, received[s])
        /\ handle[s] = None => received[s] = <<>>
        /\ handle[s] # None => Follows(sent, ends, fs.file[handle[s]].offset, received[s],
                                       pc[s] = "send", text[s])
  BY DEF Journal
(* A subscriber whose handle and message stay as they are follows on. *)
<1>3. ASSUME NEW s \in Subscribers, UNCHANGED sent, handle'[s] = handle[s],
             text'[s] = text[s], received'[s] = received[s], pc'[s] = "send" <=> pc[s] = "send",
             handle[s] # None => fs'.file[handle[s]] = fs.file[handle[s]]
      PROVE  /\ Heard(sent', ends, received'[s])
             /\ handle'[s] = None => received'[s] = <<>>
             /\ handle'[s] # None => Follows(sent', ends, fs'.file[handle'[s]].offset,
                                             received'[s], pc'[s] = "send", text'[s])
  BY <1>2, <1>3
<1>4. CASE Rests
  <2>1. Journal(ends)'
    BY <1>1, <1>3, <1>4 DEF Rests, Journal
  <2> QED
    BY <2>1
<1>5. ASSUME NEW w \in Workers, NEW mode, mode \in {{}, {"append"}},
             w \in Publishers => mode = {"append"}, w \in Subscribers => mode = {},
             Opens(w, mode)
      PROVE  Journal(ends)'
  <2> DEFINE r == Open(fs, Box, mode)
             at == IF "append" \in mode THEN fs.inode[Lookup(fs, Box)].size ELSE 0
  <2>1. /\ r.fs.dir = fs.dir /\ r.fs.inode = fs.inode /\ r.fs.data = fs.data
        /\ r.ret \in (Handles \ fs.opened) \cup {None}
        /\ r.ret = None => r.fs = fs
        /\ r.ret # None =>
             r.fs.file = [fs.file EXCEPT ![r.ret] = [inum |-> Lookup(fs, Box), offset |-> at]]
    <3>1. {"creat", "trunc"} \cap mode = {} /\ fs \in Tables /\ NoLinks(fs)
      BY <1>0, <1>5
    <3>2. /\ r.fs.dir = fs.dir /\ r.fs.inode = fs.inode /\ r.fs.inodes = fs.inodes
          /\ r.fs.blocks = fs.blocks /\ r.fs.data = fs.data
          /\ r.ret \in (Handles \ fs.opened) \cup {None}
          /\ r.ret = None => r.fs = fs
          /\ r.ret # None =>
               /\ r.fs.opened = fs.opened \cup {r.ret}
               /\ r.fs.file = [fs.file EXCEPT ![r.ret] = [inum |-> Lookup(fs, Box), offset |-> at]]
      BY <3>1, OpenExisting
    <3> QED
      BY <3>2
  <2>2. PICK to : /\ handle[w] = None /\ fs' = r.fs /\ handle' = [handle EXCEPT ![w] = r.ret]
                  /\ pc' = [pc EXCEPT ![w] = to] /\ to # "send"
                  /\ UNCHANGED <<sent, text, received>>
    BY <1>5 DEF Opens
  <2> HIDE DEF r, at
  <2>3. Laid(fs', sent', ends) /\ InodeOf(fs') = InodeOf(fs)
    BY <1>1, <2>1, <2>2, SameJournal
  <2>4. \A v \in Workers \ {w} : handle'[v] = handle[v] /\ pc'[v] = pc[v]
    BY <1>0, <2>2
  <2>5. handle'[w] = r.ret /\ pc'[w] = to
    BY <1>0, <2>2
  <2>6. \A v \in Workers : handle[v] # None => fs'.file[handle[v]] = fs.file[handle[v]]
    <3> SUFFICES ASSUME NEW v \in Workers, handle[v] # None
                 PROVE  fs'.file[handle[v]] = fs.file[handle[v]]
      OBVIOUS
    <3>1. handle[v] \in fs.opened /\ handle[v] \in Handles /\ r.ret # handle[v]
      BY <1>0, <2>1 DEF Sessions
    <3> QED
      BY <1>0, <2>1, <2>2, <3>1 DEF Tables
  <2>7. r.ret # None => fs'.file[r.ret].offset = at
    BY <1>0, <2>1, <2>2 DEF Tables
  <2>8. ASSUME NEW p \in Publishers, handle'[p] # None
        PROVE  fs'.file[handle'[p]].offset = InodeOf(fs').size
    <3>1. CASE p = w
      <4>1. at = InodeOf(fs).size
        BY <1>5, <3>1 DEF at, InodeOf
      <4> QED
        BY <2>3, <2>5, <2>7, <2>8, <3>1, <4>1
    <3>2. CASE p # w
      BY <1>1, <2>3, <2>4, <2>6, <2>8, <3>2
    <3> QED
      BY <3>1, <3>2
  <2>9. ASSUME NEW s \in Subscribers
        PROVE  /\ Heard(sent', ends, received'[s])
               /\ handle'[s] = None => received'[s] = <<>>
               /\ handle'[s] # None => Follows(sent', ends, fs'.file[handle'[s]].offset,
                                               received'[s], pc'[s] = "send", text'[s])
    <3>1. CASE s = w
      <4>1. at = 0
        BY <1>5, <3>1 DEF at
      <4>2. received'[s] = <<>> /\ Heard(sent', ends, received'[s])
        BY <1>2, <2>2, <3>1
      <4>3. Place(sent, ends, 0, 0) /\ Counted(sent, 0) = Len(<<>>)
        <5>1. ends[0] = 0 /\ 0 \in 0 .. Len(sent) /\ Len(<<>>) = 0
          BY <1>0, <1>1 DEF Laid
        <5> QED
          BY <5>1, CountedNext DEF Place
      <4>4. Follows(sent, ends, 0, <<>>, FALSE, text'[s])
        BY <4>3 DEF Follows
      <4>5. (pc'[s] = "send") = FALSE
        BY <2>2, <2>5, <3>1
      <4> QED
        BY <2>2, <2>5, <2>7, <3>1, <4>1, <4>2, <4>4, <4>5
    <3>2. CASE s # w
      BY <1>3, <2>2, <2>4, <2>6, <3>2
    <3> QED
      BY <3>1, <3>2
  <2> QED
    BY <2>3, <2>8, <2>9 DEF Journal
<1>6. ASSUME NEW w \in Workers, Closes(w),
             \A v \in Workers \ {w} : text'[v] = text[v],
             \A s \in Subscribers : received'[s] = IF s = w THEN <<>> ELSE received[s]
      PROVE  Journal(ends)'
  <2>1. fs'.dir = fs.dir /\ fs'.inode = fs.inode /\ fs'.data = fs.data /\ fs'.file = fs.file
    BY <1>6 DEF Closes, Close, Return
  <2>2. Laid(fs', sent', ends) /\ InodeOf(fs') = InodeOf(fs)
    BY <1>1, <1>6, <2>1, SameJournal DEF Closes
  <2>3. /\ \A v \in Workers \ {w} : handle'[v] = handle[v] /\ pc'[v] = pc[v]
        /\ handle'[w] = None /\ sent' = sent
    BY <1>0, <1>6 DEF Closes
  <2>4. \A p \in Publishers : handle'[p] # None => fs'.file[handle'[p]].offset = InodeOf(fs').size
    BY <1>1, <2>1, <2>2, <2>3
  <2>5. ASSUME NEW s \in Subscribers
        PROVE  /\ Heard(sent', ends, received'[s])
               /\ handle'[s] = None => received'[s] = <<>>
               /\ handle'[s] # None => Follows(sent', ends, fs'.file[handle'[s]].offset,
                                               received'[s], pc'[s] = "send", text'[s])
    <3>1. CASE s = w
      <4>1. received'[s] = <<>> /\ 1 .. Len(<<>>) = {}
        BY <1>6, <3>1
      <4> QED
        BY <2>3, <3>1, <4>1 DEF Heard
    <3>2. CASE s # w
      BY <1>3, <1>6, <2>1, <2>3, <3>2
    <3> QED
      BY <3>1, <3>2
  <2> QED
    BY <2>2, <2>4, <2>5 DEF Journal
<1>7. ASSUME NEW p \in Publishers, PubWrite(p), Moves(p)
      PROVE  \E e : Journal(e)'
  <2> DEFINE h == handle[p]
             m == text[p]
             r == Write(fs, h, Append(m, Nul))
             t == r.fs
  <2>1. /\ pc[p] = "write" /\ fs' = t /\ sent' = IF r.ret = None THEN sent ELSE Append(sent, m)
        /\ text' = [text EXCEPT ![p] = <<>>] /\ UNCHANGED <<handle, received>>
    BY <1>7 DEF PubWrite, Goto
  <2>2. PICK to : pc' = [pc EXCEPT ![p] = to]
    BY <1>7 DEF Moves
  <2>3. /\ h \in fs.opened /\ fs.file[h].inum = Lookup(fs, Box) /\ h # None
        /\ fs.file[h].offset = InodeOf(fs).size /\ m \in Texts /\ Lookup(fs, Box) # None
    <3>1. h # None
      BY <1>7 DEF Moves, Sessions
    <3>2. m \in Texts
      BY <2>1 DEF TypeInv
    <3> QED
      BY <1>1, <3>1, <3>2 DEF Sessions, HandlesOwned
  <2> HIDE DEF h, m
  <2>4. \A v \in Workers \ {p} : pc'[v] = pc[v] /\ text'[v] = text[v]
    BY <1>0, <2>1, <2>2
  <2>5. \A q \in Publishers \ {p} : handle'[q] = None
    <3>1. pc[p] # "idle"
      BY <2>1
    <3>2. \A q \in Publishers \ {p} : pc[q] = "idle"
      BY <3>1 DEF Alone
    <3> QED
      BY <2>1, <3>2 DEF HandlesOwned
  <2>6. \/ t = fs /\ r.ret = None
        \/ /\ r.ret # None
           /\ t.file[h].offset = InodeOf(t).size
           /\ \A g \in Handles \ {h} : t.file[g] = fs.file[g]
           /\ \E e : Laid(t, Append(sent, m), e) /\ \A k \in 0 .. Len(sent) : e[k] = ends[k]
    BY <1>0, <1>1, <2>3, AppendsMessage
  <2> HIDE DEF r, t
  <2>7. CASE t = fs /\ r.ret = None
    <3>1. fs' = fs /\ sent' = sent
      BY <2>1, <2>7
    <3>2. \A s \in Subscribers : s # p
      OBVIOUS
    <3>3. Journal(ends)'
      BY <1>1, <1>3, <2>1, <2>4, <3>1, <3>2 DEF Journal
    <3> QED
      BY <3>3
  <2>8. ASSUME NEW e, Laid(t, Append(sent, m), e), \A k \in 0 .. Len(sent) : e[k] = ends[k],
               r.ret # None, t.file[h].offset = InodeOf(t).size,
               \A g \in Handles \ {h} : t.file[g] = fs.file[g]
        PROVE  Journal(e)'
    <3>1. Laid(fs', sent', e)
      BY <2>1, <2>8
    <3>2. ASSUME NEW q \in Publishers, handle'[q] # None
          PROVE  fs'.file[handle'[q]].offset = InodeOf(fs').size
      BY <2>1, <2>5, <2>8, <3>2 DEF h
    <3>3. ASSUME NEW s \in Subscribers
          PROVE  /\ Heard(sent', e, received'[s])
                 /\ handle'[s] = None => received'[s] = <<>>
                 /\ handle'[s] # None => Follows(sent', e, fs'.file[handle'[s]].offset,
                                                 received'[s], pc'[s] = "send", text'[s])
      <4>1. sent' = Append(sent, m)
        BY <2>1, <2>8
      <4>2. /\ \A got : Heard(sent, ends, got) => Heard(sent', e, got)
            /\ \A off, got, sending, said : Follows(sent, ends, off, got, sending, said)
                                             => Follows(sent', e, off, got, sending, said)
        BY <1>0, <2>3, <2>8, <4>1, JournalGrows
      <4>3. /\ s # p /\ handle'[s] = handle[s] /\ received'[s] = received[s]
            /\ pc'[s] = pc[s] /\ text'[s] = text[s]
        BY <2>1, <2>4
      <4>4. handle[s] # None => fs'.file[handle[s]] = fs.file[handle[s]]
        <5>1. handle[s] # None => handle[s] \in Handles \ {h}
          BY <1>0, <2>3, <4>3 DEF Sessions, h
        <5> QED
          BY <2>1, <2>8, <5>1
      <4> QED
        BY <1>2, <4>2, <4>3, <4>4
    <3> QED
      BY <3>1, <3>2, <3>3 DEF Journal
  <2> QED
    BY <2>6, <2>7, <2>8
<1>8. ASSUME NEW s \in Subscribers, NEW from, NEW none, SubRead(s, from, none),
             from # "send", none # "send", Moves(s)
      PROVE  Journal(ends)'
  <2> DEFINE h == handle[s]
             r == Read(fs, h, BlockSize)
             to == IF r.ret > 0 THEN "send" ELSE none
  <2>1. /\ pc[s] # "send" /\ pc' = [pc EXCEPT ![s] = to]
        /\ fs' = r.fs /\ text' = [text EXCEPT ![s] = r.out]
        /\ UNCHANGED <<handle, sent, received>>
    BY <1>8 DEF SubRead, Goto
  <2>2. h \in fs.opened /\ h \in Handles /\ h # None /\ fs.file[h].inum = Lookup(fs, Box)
    BY <1>0, <1>8 DEF Moves, Sessions
  <2>3. (pc'[s] = "send") = (r.ret > 0) /\ text'[s] = r.out
    <3>1. pc'[s] = to /\ text'[s] = r.out
      BY <1>0, <2>1
    <3> QED
      BY <1>8, <3>1
  <2> HIDE DEF h, to
  <2>4. \A v \in Workers \ {s} : pc'[v] = pc[v] /\ text'[v] = text[v]
    BY <1>0, <2>1
  <2>5. /\ r.fs.dir = fs.dir /\ r.fs.inode = fs.inode /\ r.fs.data = fs.data
        /\ \A g \in Handles \ {h} : r.fs.file[g] = fs.file[g]
    <3>1. r = Copy(fs, h, ToRead(fs, h, BlockSize))
      BY <2>2 DEF Read
    <3> HIDE DEF r
    <3> QED
      BY <1>0, <2>2, <3>1, CopyMoves
  <2>6. Follows(sent, ends, r.fs.file[h].offset, received[s], r.ret > 0, r.out)
    <3>1. Follows(sent, ends, fs.file[h].offset, received[s], FALSE, text[s])
      <4>1. (pc[s] = "send") = FALSE
        BY <2>1
      <4> QED
        BY <1>2, <2>2, <4>1 DEF h
    <3>2. received[s] \in Seq(Seq(Bytes))
      BY <1>0
    <3> QED
      BY <1>0, <1>1, <2>2, <3>1, <3>2, ReadsMessage
  <2> HIDE DEF r
  <2>7. Laid(fs', sent', ends) /\ InodeOf(fs') = InodeOf(fs)
    BY <1>1, <2>1, <2>5, SameJournal
  <2>8. \A v \in Workers \ {s} : handle[v] # None => fs'.file[handle[v]] = fs.file[handle[v]]
    <3> SUFFICES ASSUME NEW v \in Workers \ {s}, handle[v] # None
                 PROVE  fs'.file[handle[v]] = fs.file[handle[v]]
      OBVIOUS
    <3>1. handle[v] \in Handles \ {h}
      BY <1>0, <2>2 DEF Sessions, h
    <3> QED
      BY <2>1, <2>5, <3>1
  <2>9. \A p \in Publishers : handle'[p] # None => fs'.file[handle'[p]].offset = InodeOf(fs').size
    BY <1>1, <2>1, <2>7, <2>8
  <2>10. ASSUME NEW v \in Subscribers
         PROVE  /\ Heard(sent', ends, received'[v])
                /\ handle'[v] = None => received'[v] = <<>>
                /\ handle'[v] # None => Follows(sent', ends, fs'.file[handle'[v]].offset,
                                                received'[v], pc'[v] = "send", text'[v])
    <3>1. CASE v = s
      BY <1>2, <2>1, <2>2, <2>3, <2>6, <3>1 DEF h
    <3>2. CASE v # s
      BY <1>3, <2>1, <2>4, <2>8, <3>2
    <3> QED
      BY <3>1, <3>2
  <2> QED
    BY <2>7, <2>9, <2>10 DEF Journal
<1>9. ASSUME NEW s \in Subscribers, SubSend(s)
      PROVE  Journal(ends)'
  <2> DEFINE h == handle[s]
             off == fs.file[h].offset
  <2>1. PICK g \in Tails(s) : received' = [received EXCEPT ![s] = Append(@, text[s] \o g)]
    BY <1>9 DEF SubSend
  <2>2. /\ up /\ pc[s] = "send" /\ pc' = [pc EXCEPT ![s] = "more"]
        /\ UNCHANGED <<fs, handle, text, sent>>
    BY <1>9 DEF SubSend, Goto
  <2>3. h # None
    BY <2>2 DEF Sessions
  <2>4. /\ received[s] \in Seq(Seq(Bytes)) /\ text[s] \in Seq(Bytes)
        /\ Heard(sent, ends, received[s])
    BY <1>0, <1>2
  <2>5. Follows(sent, ends, off, received[s], TRUE, text[s])
    <3>1. (pc[s] = "send") = TRUE
      BY <2>2
    <3> QED
      BY <1>2, <2>3, <3>1
  <2>6. g \in IF received[s] = <<>> THEN Garbage ELSE {<<>>}
    BY <2>1 DEF Tails
  <2> HIDE DEF h, off
  <2>7. /\ received'[s] = Append(received[s], text[s] \o g)
        /\ \A v \in Subscribers \ {s} : received'[v] = received[v]
        /\ pc'[s] = "more" /\ \A v \in Workers \ {s} : pc'[v] = pc[v]
    BY <1>0, <2>1, <2>2
  <2>8. /\ Heard(sent, ends, received'[s])
        /\ Follows(sent, ends, off, received'[s], FALSE, text[s])
    <3> DEFINE more == Append(received[s], text[s] \o g)
    <3>1. Heard(sent, ends, more) /\ \A x : Follows(sent, ends, off, more, FALSE, x)
      BY <2>4, <2>5, <2>6, SendsMessage
    <3> HIDE DEF more
    <3>2. received'[s] = more
      BY <2>7 DEF more
    <3> QED
      BY <3>1, <3>2
  <2>9. ASSUME NEW v \in Subscribers
        PROVE  /\ Heard(sent', ends, received'[v])
               /\ handle'[v] = None => received'[v] = <<>>
               /\ handle'[v] # None => Follows(sent', ends, fs'.file[handle'[v]].offset,
                                               received'[v], pc'[v] = "send", text'[v])
    <3>1. CASE v = s
      <4>1. (pc'[v] = "send") = FALSE
        BY <2>7, <3>1
      <4> QED
        BY <2>2, <2>3, <2>8, <3>1, <4>1 DEF h, off
    <3>2. CASE v # s
      BY <1>3, <2>2, <2>7, <3>2
    <3> QED
      BY <3>1, <3>2
  <2> QED
    BY <1>1, <2>2, <2>9 DEF Journal
<1>10. CASE \E p \in Publishers : PubClose(p) /\ Closes(p)
  <2>1. PICK p \in Publishers : PubClose(p) /\ Closes(p)
    BY <1>10
  <2>2. UNCHANGED <<text, received>> /\ \A s \in Subscribers : s # p
    BY <2>1 DEF PubClose
  <2>3. Journal(ends)'
    BY <1>6, <2>1, <2>2
  <2> QED
    BY <2>3
<1>11. CASE \E s \in Subscribers : SubBroken(s) /\ Closes(s)
  <2>1. PICK s \in Subscribers : SubBroken(s) /\ Closes(s)
    BY <1>11
  <2>2. text' = [text EXCEPT ![s] = <<>>] /\ received' = [received EXCEPT ![s] = <<>>]
    BY <2>1 DEF SubBroken
  <2>3. /\ \A v \in Workers \ {s} : text'[v] = text[v]
        /\ \A v \in Subscribers : received'[v] = IF v = s THEN <<>> ELSE received[v]
    BY <1>0, <2>2
  <2>4. Journal(ends)'
    BY <1>6, <2>1, <2>3
  <2> QED
    BY <2>4
<1>12. CASE (\E p \in Publishers : Opens(p, {"append"})) \/ \E s \in Subscribers : Opens(s, {})
  <2>1. Journal(ends)'
    BY <1>5, <1>12
  <2> QED
    BY <2>1
<1> QED
  BY <1>4, <1>7, <1>8, <1>9, <1>10, <1>11, <1>12, StepKinds

(* Only the last message that fills the block can be cut short: after it   *)
(* there is no room, and so nothing that a subscriber could have got.      *)
LEMMA CutShort ==
  ASSUME NEW s \in Tables, NEW msgs \in Seq(Texts), NEW ends, Laid(s, msgs, ends),
         NEW got \in Seq(Seq(Bytes)), Heard(msgs, ends, got),
         NEW k \in 1 .. Len(got), NEW i, Nth(msgs, ends, i, k)
  PROVE  \E n \in IF k = Len(got) /\ InodeOf(s).size = BlockSize THEN 1 .. Len(msgs[i])
                                                                   ELSE {Len(msgs[i])} :
           Stored(msgs, ends, i) = SubSeq(msgs[i], 1, n)
<1> DEFINE L == Len(msgs[i])
           room == Room(ends, i)
           n == IF L <= room THEN L ELSE room
           full == InodeOf(s).size = BlockSize
           last == k = Len(got)
<1>1. i \in 1 .. Len(msgs) /\ msgs[i] # <<>> /\ Counted(msgs, i) = k /\ ends[i - 1] < BlockSize
  BY DEF Nth
<1>2. /\ ends[i - 1] \in Nat /\ ends[i] \in Nat /\ InodeOf(s).size \in Nat /\ L \in Nat
      /\ ends[i] <= InodeOf(s).size /\ InodeOf(s).size <= BlockSize
      /\ ends[i] = IF ends[i - 1] + L < BlockSize THEN ends[i - 1] + L + 1 ELSE BlockSize
      /\ BlockSize \in Nat
  BY <1>1, MessageBytes, Sizes
<1>3. L > 0
  <2>1. msgs[i] \in Seq(Bytes)
    BY <1>1, Sorts
  <2> QED
    BY <1>1, <2>1
<1>4. Stored(msgs, ends, i) = SubSeq(msgs[i], 1, n)
  BY DEF Stored
<1>5. room = BlockSize - ends[i - 1]
  BY DEF Room
<1> HIDE DEF L, room
<1>6. room \in Nat /\ room > 0 /\ n \in 1 .. L
  <2>1. /\ ends[i - 1] \in Nat /\ BlockSize \in Nat /\ L \in Nat
        /\ ends[i - 1] < BlockSize /\ L > 0
    BY <1>1, <1>2, <1>3
  <2>2. room \in Nat /\ room > 0
    <3> HIDE DEF n
    <3> QED
      BY <1>5, <2>1
  <2> QED
    BY <2>1, <2>2
<1>7. CASE L <= room
  <2>1. n = L /\ L \in 1 .. L
    BY <1>2, <1>3, <1>7
  <2> QED
    BY <1>4, <2>1 DEF L
<1>8. CASE ~(L <= room)
  <2>1. ends[i] = BlockSize
    BY <1>2, <1>5, <1>6, <1>8
  <2>2. full
    BY <1>2, <2>1
  <2>3. last
    <3> SUFFICES ASSUME ~last PROVE FALSE
      OBVIOUS
    <3>1. k + 1 \in 1 .. Len(got) /\ k \in Nat
      OBVIOUS
    <3>2. PICK j : Nth(msgs, ends, j, k + 1)
      BY <3>1 DEF Heard
    <3>3. j \in 1 .. Len(msgs) /\ Counted(msgs, j) = k + 1 /\ ends[j - 1] < BlockSize
      BY <3>2 DEF Nth
    <3>4. ~(j <= i)
      <4>1. j <= i => Counted(msgs, j) <= Counted(msgs, i)
        BY <1>1, <3>3, CountedNext
      <4> QED
        BY <1>1, <3>1, <3>3, <4>1
    <3>5. i <= j - 1 /\ j - 1 \in 0 .. Len(msgs) /\ i \in 0 .. Len(msgs)
      BY <1>1, <3>3, <3>4
    <3>6. ends[i] <= ends[j - 1] /\ ends[j - 1] \in 0 .. BlockSize
      BY <3>5 DEF Laid
    <3> QED
      BY <1>2, <2>1, <3>3, <3>6
  <2> HIDE DEF n
  <2> QED
    BY <1>4, <1>6, <2>2, <2>3 DEF L
<1> QED
  BY <1>7, <1>8

(* What clients got of a journal is in order. *)
LEMMA HeardInOrder ==
  ASSUME TypeInv, NEW ends, Journal(ends)
  PROVE  InOrder
<1> USE Sorts
<1>0. fs \in Tables /\ sent \in Seq(Texts) /\ received \in [Subscribers -> Seq(Seq(Bytes))]
  BY DEF TypeInv, TypeOK
<1> SUFFICES ASSUME NEW s \in Subscribers, NEW k \in DOMAIN received[s]
             PROVE  \E i \in DOMAIN sent :
                      /\ sent[i] # <<>> /\ Said(i) = k
                      /\ \E n \in IF k = Len(received[s]) /\ BoxInode.size = BlockSize
                                    THEN 1 .. Len(sent[i]) ELSE {Len(sent[i])},
                            g \in IF k = 1 THEN Garbage \cup {<<>>} ELSE {<<>>} :
                           received[s][k] = SubSeq(sent[i], 1, n) \o g
  BY DEF InOrder
<1>1. received[s] \in Seq(Seq(Bytes)) /\ k \in 1 .. Len(received[s])
  BY <1>0
<1>2. Laid(fs, sent, ends) /\ Heard(sent, ends, received[s])
  BY DEF Journal
<1>3. PICK i, g : /\ Nth(sent, ends, i, k) /\ g \in Behind(k)
                  /\ received[s][k] = Stored(sent, ends, i) \o g
  BY <1>1, <1>2 DEF Heard
<1>4. PICK n \in IF k = Len(received[s]) /\ InodeOf(fs).size = BlockSize
                   THEN 1 .. Len(sent[i]) ELSE {Len(sent[i])} :
             Stored(sent, ends, i) = SubSeq(sent[i], 1, n)
  BY <1>0, <1>1, <1>2, <1>3, CutShort
<1>5. i \in DOMAIN sent /\ sent[i] # <<>> /\ Said(i) = k
  BY <1>0, <1>3 DEF Nth, Said, Counted
<1>6. BoxInode = InodeOf(fs) /\ g \in IF k = 1 THEN Garbage \cup {<<>>} ELSE {<<>>}
  BY <1>3 DEF BoxInode, InodeOf, Behind
<1> QED
  BY <1>3, <1>4, <1>5, <1>6

(* Whatever publishers and subscribers do, however long the messages are   *)
(* and wherever a subscriber starts, falls behind or leaves: each client   *)
(* gets the messages that are not empty, in the order of tfs_write, none   *)
(* twice, none left out, none cut but at the end of the block, and none    *)
(* with garbage behind it but the first.                                   *)
THEOREM MessagesInOrder == ASSUME MaxInodes > 1 PROVE Spec => []InOrder
<1> DEFINE Kept == \E ends : Journal(ends)
<1>1. Init => HandlesOwned
  BY InitHandles
<1>2. Init => Sessions /\ Alone
  BY Sorts DEF Init, Sessions, Alone
<1>3. Init => Kept
  <2> SUFFICES ASSUME Init PROVE Journal([k \in {0} |-> 0])
    OBVIOUS
  <2> DEFINE ends == [k \in {0} |-> 0]
  <2>1. Laid(fs, sent, ends)
    BY BoxEmpty DEF Init
  <2> HIDE DEF ends
  <2>2. \A s \in Subscribers : handle[s] = None /\ received[s] = <<>>
    BY Sorts DEF Init
  <2>3. \A p \in Publishers : handle[p] = None
    BY Sorts DEF Init
  <2>4. 1 .. Len(<<>>) = {}
    OBVIOUS
  <2>5. Journal(ends)
    BY <2>1, <2>2, <2>3, <2>4 DEF Journal, Heard
  <2> QED
    BY <2>5 DEF ends
<1>4. TypeInv /\ HandlesOwned /\ [Next]_vars => HandlesOwned'
  BY NextHandles
<1>5. TypeInv /\ HandlesOwned /\ Sessions /\ [Next]_vars => Sessions'
  BY NextSessions
<1>6. TypeInv /\ HandlesOwned /\ Sessions /\ Alone /\ Kept /\ [Next]_vars => Kept'
  BY NextJournal
<1>7. TypeInv /\ Kept => InOrder
  BY HeardInOrder
<1> HIDE DEF Kept
<1> QED
  BY <1>1, <1>2, <1>3, <1>4, <1>5, <1>6, <1>7, InitTypes, NextTypes, NextAlone, PTL DEF Spec
=============================================================================
