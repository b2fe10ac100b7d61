------------------------------- MODULE Boxes -------------------------------
(***************************************************************************)
(* The table of message boxes of the broker, server_boxes, and the         *)
(* handlers of mbroker.c that work on it, each run by a worker thread for  *)
(* one client.  A step ends where another worker can be noticed: when      *)
(* box_size_lock is released, at a call of TecnicoFS, and where the worker *)
(* opens the client's FIFO, which blocks until the client does so too.     *)
(* What publishers and subscribers exchange is Delivery's subject; here a  *)
(* session is open until its client ends it.  The counters that only the   *)
(* list command shows (n_subs, box_size) are left out.                     *)
(***************************************************************************)
EXTENDS TfsState

CONSTANTS Workers,     \* worker threads; there are as many slots at the start
          Passwords,   \* what box_password can be; NoPassword is all zeros
          NoPassword,
          MaxSlots,    \* bound on size_boxes
          Kinds,       \* the requests clients make
          Careful,     \* no manager removes a box while somebody uses it
          Nobody

ASSUME BoxesAssumption ==
  /\ IsFiniteSet(Workers) /\ Workers # {} /\ Nobody \notin Workers
  /\ NoPassword \in Passwords
  /\ MaxSlots \in Nat /\ Cardinality(Workers) <= MaxSlots
  /\ Kinds \subseteq {"pub", "sub", "create", "remove", "list", "unlock", "lock"}
  /\ Careful \in BOOLEAN

VARIABLES fs,              \* TecnicoFS
          up,              \* the broker runs
          slots,           \* server_boxes
          box_size_lock,   \* its owner
          index,           \* thread_pool[w].index
          handle,          \* fd_tfs of the handler a worker runs
          pc,              \* next step of each worker
          client           \* its client: the request, and how far its FIFO is

vars == <<fs, up, slots, box_size_lock, index, handle, pc, client>>

EmptySlot == [free |-> 0, name |-> NoName, password |-> NoPassword, n_pub |-> 0]
NoClient == [name |-> NoName, password |-> NoPassword, new |-> NoPassword, fifo |-> "absent"]

Init == /\ fs = InitialState
        /\ up = TRUE
        /\ slots = [i \in 0 .. Cardinality(Workers) - 1 |-> EmptySlot]
        /\ box_size_lock = Nobody
        /\ index = [w \in Workers |-> None]
        /\ handle = [w \in Workers |-> None]
        /\ pc = [w \in Workers |-> "idle"]
        /\ client = [w \in Workers |-> NoClient]

-----------------------------------------------------------------------------
(* The loop every handler starts with: the first slot with the name. *)
Find(name) == LET found == {i \in DOMAIN slots : slots[i].name = name}
              IN IF found = {} THEN None ELSE Min(found)

Named(w) == Find(client[w].name)

(* Mutant of Admitted: the password is not looked at. *)
AdmittedAlways(w, i) == i # None

Admitted(w, i) == i # None /\ slots[i].password = client[w].password

At(w, label) == up /\ pc[w] = label
Goto(w, label) == pc' = [pc EXCEPT ![w] = label] /\ UNCHANGED client
(* The same, with no more use for the request. *)
Conclude(w, label) ==
  /\ pc' = [pc EXCEPT ![w] = label]
  /\ client' = [client EXCEPT ![w] = [NoClient EXCEPT !.fifo = client[w].fifo]]

Leave(w) == /\ pc' = [pc EXCEPT ![w] = "idle"]
             /\ client' = [client EXCEPT ![w] = NoClient]

(* A handler enters with the lock free, and leaves it free or keeps it. *)
Enter(w, label) == At(w, label) /\ box_size_lock = Nobody
Keep(w) == box_size_lock' = w
Release == box_size_lock' = Nobody

FifoOpen(w) == client[w].fifo = "open"
FifoAbsent(w) == client[w].fifo = "absent"

Sessions == {"sub_open", "sub_pipe", "subscribed", "pub_pipe", "pub_open", "publishing"}
InUse(i) == \E w \in Workers : pc[w] \in Sessions /\ index[w] = i

-----------------------------------------------------------------------------
(* A worker takes a request from the queue.  Publishers make their FIFO    *)
(* before they send it, subscribers and managers afterwards.               *)
Begin(w) ==
  /\ At(w, "idle")
  /\ \E kind \in Kinds, n \in Names, p \in Passwords, new \in Passwords :
       /\ kind # "lock" => new = NoPassword
       /\ pc' = [pc EXCEPT ![w] = kind]
       /\ client' = [client EXCEPT ![w] =
                       [name |-> n, password |-> p, new |-> new,
                        fifo |-> IF kind = "pub" THEN "made" ELSE "absent"]]
  /\ UNCHANGED <<fs, up, slots, box_size_lock, index, handle>>

(* Mutant of PubRegister: n_pub counts the publishers and admits them all. *)
PubCount(w) == LET i == Named(w)
               IN /\ Enter(w, "pub") /\ Admitted(w, i)
                  /\ index' = [index EXCEPT ![w] = i]
                  /\ slots' = [slots EXCEPT ![i].n_pub = @ + 1]
                  /\ Goto(w, "pub_pipe")
                  /\ UNCHANGED <<fs, up, box_size_lock, handle>>

(* process_pub: a box that has a publisher turns others away before it     *)
(* looks at their password.                                                *)
PubRegister(w) ==
  LET i == Named(w)
      busy == i # None /\ slots[i].n_pub = 1
  IN /\ Enter(w, "pub")
     /\ \/ /\ busy
           /\ Conclude(w, "pub_busy")
           /\ UNCHANGED <<slots, box_size_lock, index>>
        \/ /\ ~busy /\ Admitted(w, i)
           /\ index' = [index EXCEPT ![w] = i]
           /\ slots' = [slots EXCEPT ![i].n_pub = 1]
           /\ Goto(w, "pub_pipe")
           /\ UNCHANGED box_size_lock
        \/ /\ ~busy /\ ~Admitted(w, i)
           /\ Keep(w)
           /\ Conclude(w, "pub_refuse")
           /\ UNCHANGED <<slots, index>>
     /\ UNCHANGED <<fs, up, handle>>

PubBusy(w) == /\ At(w, "pub_busy") /\ FifoOpen(w)
              /\ Leave(w)
              /\ UNCHANGED <<fs, up, slots, box_size_lock, index, handle>>

PubRefuse(w) == /\ At(w, "pub_refuse") /\ FifoOpen(w)
                /\ Leave(w)
                /\ Release
                /\ UNCHANGED <<fs, up, slots, index, handle>>

PubPipe(w) == /\ At(w, "pub_pipe") /\ FifoOpen(w)
              /\ Goto(w, "pub_open")
              /\ UNCHANGED <<fs, up, slots, box_size_lock, index, handle>>

(* Without a handle the publisher leaves, and n_pub stays 1. *)
PubOpen(w) ==
  LET r == Open(fs, client[w].name, {"append"})
  IN /\ At(w, "pub_open")
     /\ fs' = r.fs
     /\ handle' = [handle EXCEPT ![w] = r.ret]
     /\ IF r.ret = None THEN Leave(w) ELSE Goto(w, "publishing")
     /\ UNCHANGED <<up, slots, box_size_lock, index>>

(* The slot is the one the index says, whatever box it holds by now. *)
PubEnd(w) == /\ At(w, "publishing")
             /\ fs' = Close(fs, handle[w]).fs
             /\ handle' = [handle EXCEPT ![w] = None]
             /\ slots' = [slots EXCEPT ![index[w]].n_pub = 0]
             /\ Leave(w)
             /\ UNCHANGED <<up, box_size_lock, index>>

-----------------------------------------------------------------------------
SubRegister(w) ==
  LET i == Named(w)
  IN /\ Enter(w, "sub")
     /\ IF Admitted(w, i)
          THEN index' = [index EXCEPT ![w] = i] /\ Goto(w, "sub_open")
          ELSE Conclude(w, "sub_refuse") /\ UNCHANGED index
     /\ UNCHANGED <<fs, up, slots, box_size_lock, handle>>

SubRefuse(w) == /\ At(w, "sub_refuse") /\ FifoOpen(w)
                /\ Leave(w)
                /\ UNCHANGED <<fs, up, slots, box_size_lock, index, handle>>

(* Without a handle the broker exits. *)
SubOpen(w) ==
  LET r == Open(fs, client[w].name, {})
  IN /\ At(w, "sub_open")
     /\ fs' = r.fs
     /\ handle' = [handle EXCEPT ![w] = r.ret]
     /\ up' = (r.ret # None)
     /\ Goto(w, "sub_pipe")
     /\ UNCHANGED <<slots, box_size_lock, index>>

SubPipe(w) == /\ At(w, "sub_pipe") /\ FifoOpen(w)
              /\ Goto(w, "subscribed")
              /\ UNCHANGED <<fs, up, slots, box_size_lock, index, handle>>

SubEnd(w) == /\ At(w, "subscribed")
             /\ fs' = Close(fs, handle[w]).fs
             /\ handle' = [handle EXCEPT ![w] = None]
             /\ Leave(w)
             /\ UNCHANGED <<up, slots, box_size_lock, index>>

-----------------------------------------------------------------------------
(* process_manager_create, from the first free slot or, if there is none,  *)
(* from twice as many slots.  n_pub is not set.  The lock is kept.         *)
Grown == [i \in 0 .. 2 * Cardinality(DOMAIN slots) - 1 |->
            IF i \in DOMAIN slots THEN slots[i] ELSE EmptySlot]

Create(w) ==
  LET table == IF \E i \in DOMAIN slots : slots[i].free = 0 THEN slots ELSE Grown
      i == Min({k \in DOMAIN table : table[k].free = 0})
  IN /\ Enter(w, "create")
     /\ Keep(w)
     /\ \/ /\ Named(w) # None
           /\ Conclude(w, "create_refuse")
           /\ UNCHANGED <<slots, index>>
        \/ /\ Named(w) = None /\ Cardinality(DOMAIN table) <= MaxSlots
           /\ index' = [index EXCEPT ![w] = i]
           /\ slots' = [table EXCEPT ![i].free = 1, ![i].name = client[w].name,
                                     ![i].password = client[w].password]
           /\ Goto(w, "create_file")
     /\ UNCHANGED <<fs, up, handle>>

CreateRefuse(w) == /\ At(w, "create_refuse") /\ FifoOpen(w)
                   /\ Release
                   /\ Leave(w)
                   /\ UNCHANGED <<fs, up, slots, index, handle>>

(* tfs_open and tfs_close; without a handle the file may be there anyway. *)
CreateBoxFile(w) ==
  LET r == Open(fs, client[w].name, {"creat"})
  IN /\ At(w, "create_file")
     /\ fs' = Close(r.fs, r.ret).fs
     /\ Conclude(w, IF r.ret = None THEN "create_failed" ELSE "create_made")
     /\ UNCHANGED <<up, slots, box_size_lock, index, handle>>

(* Mutant of CreateAnswer: a failed creation keeps its slot. *)
CreateKeepsSlot(w) == /\ At(w, "create_made") \/ At(w, "create_failed")
                      /\ FifoOpen(w)
                      /\ Release
                      /\ Leave(w)
                      /\ UNCHANGED <<fs, up, slots, index, handle>>

CreateAnswer(w) ==
  /\ At(w, "create_made") \/ At(w, "create_failed")
  /\ FifoOpen(w)
  /\ slots' = IF pc[w] = "create_made" THEN slots
              ELSE [slots EXCEPT ![index[w]].free = 0, ![index[w]].name = NoName,
                                 ![index[w]].password = NoPassword]
  /\ Release
  /\ Leave(w)
  /\ UNCHANGED <<fs, up, index, handle>>

-----------------------------------------------------------------------------
(* process_manager_remove: index says which slot to clear, and is set only *)
(* if the box was found.  Without a slot, what clearing it does is         *)
(* undefined: the broker crashes, or nothing that matters here is hit.  A  *)
(* slot marked free has no name, so the return for one is never taken.     *)
Remove(w) ==
  LET i == Named(w)
      at == IF i = None THEN index[w] ELSE i
      r == Unlink(fs, client[w].name)
  IN /\ Enter(w, "remove")
     /\ Careful /\ i # None => ~InUse(i)
     /\ \/ /\ i # None /\ ~Admitted(w, i)
           /\ Conclude(w, "remove_refuse")
           /\ UNCHANGED <<fs, up, slots, box_size_lock, index>>
        \/ /\ i = None \/ Admitted(w, i)
           /\ index' = [index EXCEPT ![w] = at]
           /\ fs' = r.fs
           /\ slots' = IF r.ret = 0 /\ at \in DOMAIN slots
                         THEN [slots EXCEPT ![at] = EmptySlot] ELSE slots
           /\ up' \in IF r.ret = 0 /\ at \notin DOMAIN slots THEN BOOLEAN ELSE {TRUE}
           /\ Keep(w)
           /\ Conclude(w, "remove_answer")
     /\ UNCHANGED handle

RemoveRefuse(w) == /\ At(w, "remove_refuse") /\ FifoOpen(w)
                   /\ Leave(w)
                   /\ UNCHANGED <<fs, up, slots, box_size_lock, index, handle>>

(* The answer, and a broadcast to the slot's sleepers: to memory outside   *)
(* the table if the worker has never had a slot.                           *)
RemoveAnswer(w) == /\ At(w, "remove_answer") /\ FifoOpen(w)
                   /\ up' \in IF index[w] \in DOMAIN slots THEN {TRUE} ELSE BOOLEAN
                   /\ Release
                   /\ Leave(w)
                   /\ UNCHANGED <<fs, slots, index, handle>>

(* Mutant of RemoveHangUp: the return path forgets the lock. *)
RemoveKeepsLock(w) == /\ At(w, "remove_answer") /\ FifoAbsent(w)
                      /\ Leave(w)
                      /\ UNCHANGED <<fs, up, slots, box_size_lock, index, handle>>

RemoveHangUp(w) == /\ At(w, "remove_answer") /\ FifoAbsent(w)
                   /\ Release
                   /\ Leave(w)
                   /\ UNCHANGED <<fs, up, slots, index, handle>>

-----------------------------------------------------------------------------
(* process_manager_list copies the table; _unlock and _lock change a       *)
(* password.  They answer without the lock.                                *)
List(w) == /\ Enter(w, "list")
           /\ Conclude(w, "answer")
           /\ UNCHANGED <<fs, up, slots, box_size_lock, index, handle>>

SetPassword(w, kind, password) ==
  LET i == Named(w)
  IN /\ Enter(w, kind)
     /\ IF Admitted(w, i)
          THEN /\ index' = [index EXCEPT ![w] = i]
               /\ slots' = [slots EXCEPT ![i].password = password]
          ELSE UNCHANGED <<slots, index>>
     /\ Conclude(w, "answer")
     /\ UNCHANGED <<fs, up, box_size_lock, handle>>

Unlock(w) == SetPassword(w, "unlock", NoPassword)
Lock(w) == SetPassword(w, "lock", client[w].new)

(* open, not my_open: without a FIFO the client gets no answer. *)
Answer(w) == /\ At(w, "answer") /\ (FifoOpen(w) \/ FifoAbsent(w))
             /\ Leave(w)
             /\ UNCHANGED <<fs, up, slots, box_size_lock, index, handle>>

(* my_open of a FIFO that the client has not made yet: exit(1). *)
Fatal(w) == /\ \E label \in {"pub_busy", "pub_refuse", "pub_pipe", "sub_refuse", "sub_pipe",
                             "create_refuse", "create_made", "create_failed",
                             "remove_refuse"} : At(w, label)
            /\ FifoAbsent(w)
            /\ up' = FALSE
            /\ UNCHANGED <<fs, slots, box_size_lock, index, handle, pc, client>>

ClientMakes(w) == /\ up /\ pc[w] # "idle" /\ FifoAbsent(w)
                  /\ client' = [client EXCEPT ![w].fifo = "made"]
                  /\ UNCHANGED <<fs, up, slots, box_size_lock, index, handle, pc>>

ClientOpens(w) == /\ up /\ client[w].fifo = "made"
                  /\ client' = [client EXCEPT ![w].fifo = "open"]
                  /\ UNCHANGED <<fs, up, slots, box_size_lock, index, handle, pc>>

-----------------------------------------------------------------------------
process_pub(w) == PubRegister(w) \/ PubBusy(w) \/ PubRefuse(w) \/ PubPipe(w) \/ PubOpen(w)
process_sub(w) == SubRegister(w) \/ SubRefuse(w) \/ SubOpen(w) \/ SubPipe(w)
process_manager_create(w) == \/ Create(w) \/ CreateRefuse(w)
                             \/ CreateBoxFile(w) \/ CreateAnswer(w)
process_manager_remove(w) == \/ Remove(w) \/ RemoveRefuse(w)
                             \/ RemoveAnswer(w) \/ RemoveHangUp(w)

Handler(w) == \/ process_pub(w) \/ process_sub(w)
              \/ process_manager_create(w) \/ process_manager_remove(w)
              \/ List(w) \/ Unlock(w) \/ Lock(w) \/ Answer(w) \/ Fatal(w)

Client(w) == ClientMakes(w) \/ ClientOpens(w)

Next == \E w \in Workers : Begin(w) \/ Handler(w) \/ PubEnd(w) \/ SubEnd(w) \/ Client(w)

Spec == Init /\ [][Next]_vars

(* Workers run, and a client that has sent its request makes and opens its *)
(* FIFO, as manager.c, pub.c and sub.c do.  Sessions need not end.         *)
FairSpec == Spec /\ \A w \in Workers : WF_vars(Handler(w)) /\ WF_vars(Client(w))

-----------------------------------------------------------------------------
Labels == Kinds \cup Sessions \cup
  {"idle", "pub_busy", "pub_refuse", "sub_refuse", "create_refuse", "create_file",
   "create_made", "create_failed", "remove_refuse", "remove_answer", "answer"}

TypeOK ==
  /\ up \in BOOLEAN
  /\ \E n \in 1 .. MaxSlots :
       slots \in [0 .. n - 1 -> [free : {0, 1}, name : Names \cup {NoName},
                                 password : Passwords, n_pub : {0, 1}]]
  /\ box_size_lock \in Workers \cup {Nobody}
  /\ index \in [Workers -> 0 .. MaxSlots - 1 \cup {None}]
  /\ handle \in [Workers -> Handles \cup {None}]
  /\ pc \in [Workers -> Labels]
  /\ client \in [Workers -> [name : Names \cup {NoName}, password : Passwords,
                             new : Passwords, fifo : {"absent", "made", "open"}]]

(* The boxes that exist: a slot being filled counts from the step that     *)
(* creates the file.                                                       *)
Filling(i) == \E w \in Workers : pc[w] \in {"create_file", "create_failed"} /\ index[w] = i
Existing == {i \in DOMAIN slots : slots[i].free = 1 /\ ~Filling(i)}
BoxNames == {slots[i].name : i \in Existing}

(* Created boxes and files correspond, one to one, whenever nobody is      *)
(* inside a handler: a failed creation leaves neither, a removal takes     *)
(* both, and no two slots hold the same box.                               *)
FilesMatch == /\ BoxNames = {n \in Names : Lookup(fs, n) # None}
              /\ Cardinality(BoxNames) = Cardinality(Existing)

Passworded == [n \in BoxNames |-> slots[CHOOSE i \in Existing : slots[i].name = n].password]
Publishing == [w \in {v \in Workers : pc[v] \in {"pub_pipe", "pub_open", "publishing"}} |->
                 client[w].name]

Promise == INSTANCE Registry WITH boxes <- Passworded, writing <- Publishing, asked <- client

(* As long as no box is removed in use, the handlers are atomic operations *)
(* on a table of boxes, although they fill slots, make files and answer in *)
(* separate steps: each changes its own box at most, and no two workers    *)
(* publish to one box.                                                     *)
ImplementsRegistry == Promise!Spec

(* No return path keeps box_size_lock, on which every request waits. *)
LockReleased == \A w \in Workers : box_size_lock = w ~> (box_size_lock # w \/ ~up)

(* server_structures.h:18 says of a slot's free "0 if is free 1 if not":   *)
(* a slot marked free is used by no session.                               *)
FreeMeansUnused == \A i \in DOMAIN slots : slots[i].free = 0 => ~InUse(i)
=============================================================================
