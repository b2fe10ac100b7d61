-------------------------- MODULE TaskQueueProofs --------------------------
(***************************************************************************)
(* Proofs about TaskQueue for every number of threads, every capacity and  *)
(* every set of tasks, of a queue whose size, head and tail start at zero  *)
(* (Residue = {0}: memory fresh from the system, as in mbroker's main).    *)
(***************************************************************************)
EXTENDS TaskQueue, SequenceTheorems, TLAPS

InGate == {"test", "sleep", "size", "end", "move", "tail", "count", "unlock"}
InSize == {"end", "move", "tail", "count", "unlock"}
InEnd == {"move", "tail", "count", "unlock"}
Tested == {"size", "end", "move", "tail", "count"}

(* A mutex is owned by the thread whose program counter says so. *)
LockInv == \A t \in Threads : /\ mutex[Gate(t)] = t <=> pc[t] \in InGate
                              /\ mutex["size"] = t <=> pc[t] \in InSize
                              /\ mutex[End(t)] = t <=> pc[t] \in InEnd

SideInv == /\ \A p \in Producers : pc[p] # "run"
           /\ \A c \in Consumers : pc[c] # "idle"

(* What Test found under the gate stays true up to Count. *)
RoomInv == /\ size <= Capacity
           /\ \A p \in Producers : pc[p] \in Tested => size < Capacity
           /\ \A c \in Consumers : pc[c] \in Tested => size > 0

(* The tail is the index of the oldest element, except between the step    *)
(* that moves it and the step that changes the size.                       *)
TailInv ==
  /\ head = 0
  /\ \A p \in Producers : pc[p] = "count" => tail = size
  /\ \A c \in Consumers : pc[c] = "count" => tail = IF size > 1 THEN size - 2 ELSE 0
  /\ (\A t \in Threads : pc[t] # "count") => tail = IF size = 0 THEN 0 ELSE size - 1

Inv == TypeOK /\ LockInv /\ SideInv /\ RoomInv /\ TailInv

-----------------------------------------------------------------------------
(* Two threads of one side are never both between locking and unlocking    *)
(* their gate, and two threads of any side never both hold the size.       *)
LEMMA Exclusion ==
  ASSUME LockInv, NEW t \in Threads, NEW u \in Threads, t # u
  PROVE  /\ ~(pc[t] \in InSize /\ pc[u] \in InSize)
         /\ Gate(t) = Gate(u) => ~(pc[t] \in InGate /\ pc[u] \in InGate)
BY DEF LockInv

(* pcq_create leaves an empty queue that nobody is inside of.             *)
LEMMA InitInv == Residue = {0} /\ Init => Inv
<1> SUFFICES ASSUME Residue = {0}, Init PROVE Inv
  OBVIOUS
<1> USE QueueAssumption DEF Init, Threads
<1>1. TypeOK
  BY DEF TypeOK, Mutexes, Labels
<1>2. LockInv
  <2>1. \A t \in Threads : pc[t] \notin InGate /\ pc[t] \notin InSize /\ pc[t] \notin InEnd
    BY DEF InGate, InSize, InEnd
  <2>2. \A t \in Threads, m \in Mutexes : mutex[m] # t
    BY DEF Mutexes
  <2> QED
    BY <2>1, <2>2 DEF LockInv, Gate, End, Mutexes
<1>3. SideInv
  BY DEF SideInv
<1>4. RoomInv
  BY DEF RoomInv, Tested
<1>5. TailInv
  BY DEF TailInv
<1> QED
  BY <1>1, <1>2, <1>3, <1>4, <1>5 DEF Inv

(* No step stores a value of another type.                                *)
LEMMA NextTypeOK == Inv /\ [Next]_vars => TypeOK'
<1> SUFFICES ASSUME Inv, [Next]_vars PROVE TypeOK'
  OBVIOUS
<1> USE QueueAssumption DEF Inv, TypeOK, Threads
<1>1. ASSUME NEW p \in Producers, Call(p) PROVE TypeOK'
  BY <1>1 DEF Call, Goto, cells, Labels
<1>2. ASSUME NEW t \in Threads, LockGate(t) PROVE TypeOK'
  BY <1>2 DEF LockGate, Goto, Acquire, cells, Labels, Gate, Mutexes
<1>3. ASSUME NEW t \in Threads, Test(t) PROVE TypeOK'
  BY <1>3 DEF Test, Goto, cells, Labels
<1>4. ASSUME NEW t \in Threads, Sleep(t) PROVE TypeOK'
  BY <1>4 DEF Sleep, Goto, cells, Labels
<1>5. ASSUME NEW t \in Threads, SpuriousWakeup(t) PROVE TypeOK'
  BY <1>5 DEF SpuriousWakeup, Goto, cells, Labels
<1>6. ASSUME NEW t \in Threads, LockSize(t) PROVE TypeOK'
  BY <1>6 DEF LockSize, Goto, Acquire, cells, Labels, Mutexes
<1>7. ASSUME NEW t \in Threads, LockEnd(t) PROVE TypeOK'
  BY <1>7 DEF LockEnd, Goto, Acquire, cells, Labels, End, Mutexes
<1>8. ASSUME NEW p \in Producers, Shift(p) PROVE TypeOK'
  <2>1. ASSUME NEW i \in Slots, size # 0, i \in head + 1 .. tail + 1
        PROVE buffer[i - 1] \in Tasks \cup {NoTask}
    BY <2>1 DEF TailInv, Slots
  <2>2. buffer' \in [Slots -> Tasks \cup {NoTask}]
    BY <1>8, <2>1 DEF Shift
  <2> QED
    BY <1>8, <2>2 DEF Shift, Goto, Labels
<1>9. ASSUME NEW c \in Consumers, Take(c) PROVE TypeOK'
  <2>1. pc[c] = "move" /\ c \in Threads
    BY <1>9 DEF Take, Goto
  <2>2. \A t \in Threads : pc[t] # "count"
    BY <2>1, Exclusion DEF InSize
  <2>3. tail \in Slots
    BY <2>1, <2>2 DEF TailInv, RoomInv, Tested, Slots
  <2> QED
    BY <1>9, <2>3 DEF Take, Goto, cells, Labels
<1>10. ASSUME NEW p \in Producers, RaiseTail(p) PROVE TypeOK'
  BY <1>10 DEF RaiseTail, Goto, Labels
<1>11. ASSUME NEW c \in Consumers, LowerTail(c) PROVE TypeOK'
  BY <1>11 DEF LowerTail, Goto, Labels, TailInv
<1>12. ASSUME NEW t \in Threads, Count(t) PROVE TypeOK'
  BY <1>12 DEF Count, Goto, Labels, RoomInv, Tested
<1>13. ASSUME NEW t \in Threads, Unlock(t) PROVE TypeOK'
  BY <1>13 DEF Unlock, Goto, cells, Labels
<1>14. ASSUME NEW t \in Threads, Signal(t) PROVE TypeOK'
  BY <1>14 DEF Signal, cells, Labels, Peers
<1>15. ASSUME NEW c \in Consumers, Finish(c) PROVE TypeOK'
  BY <1>15 DEF Finish, Goto, cells, Labels
<1>16. ASSUME UNCHANGED vars PROVE TypeOK'
  BY <1>16 DEF vars
<1> QED
  BY <1>1, <1>2, <1>3, <1>4, <1>5, <1>6, <1>7, <1>8, <1>9, <1>10, <1>11, <1>12,
     <1>13, <1>14, <1>15, <1>16 DEF Next, Enqueue, Dequeue, Common

(* One step moves one thread's mutexes; no other thread owned them. *)
LEMMA NextLockInv == Inv /\ [Next]_vars => LockInv'
<1> SUFFICES ASSUME Inv, [Next]_vars PROVE LockInv'
  OBVIOUS
<1> USE QueueAssumption DEF Inv, TypeOK, Threads, Gate, End, Mutexes, LockInv, InGate,
                            InSize, InEnd
<1>1. ASSUME NEW p \in Producers, Call(p) PROVE LockInv'
  BY <1>1 DEF Call, Goto, cells
<1>2. ASSUME NEW t \in Threads, LockGate(t) PROVE LockInv'
  BY <1>2 DEF LockGate, Goto, Acquire, cells
<1>3. ASSUME NEW t \in Threads, Test(t) PROVE LockInv'
  BY <1>3 DEF Test, Goto, cells
<1>4. ASSUME NEW t \in Threads, Sleep(t) PROVE LockInv'
  BY <1>4 DEF Sleep, Goto, cells
<1>5. ASSUME NEW t \in Threads, SpuriousWakeup(t) PROVE LockInv'
  BY <1>5 DEF SpuriousWakeup, Goto, cells
<1>6. ASSUME NEW t \in Threads, LockSize(t) PROVE LockInv'
  BY <1>6 DEF LockSize, Goto, Acquire, cells
<1>7. ASSUME NEW t \in Threads, LockEnd(t) PROVE LockInv'
  BY <1>7 DEF LockEnd, Goto, Acquire, cells
<1>8. ASSUME NEW p \in Producers, Shift(p) PROVE LockInv'
  BY <1>8 DEF Shift, Goto
<1>9. ASSUME NEW c \in Consumers, Take(c) PROVE LockInv'
  BY <1>9 DEF Take, Goto, cells
<1>10. ASSUME NEW p \in Producers, RaiseTail(p) PROVE LockInv'
  BY <1>10 DEF RaiseTail, Goto
<1>11. ASSUME NEW c \in Consumers, LowerTail(c) PROVE LockInv'
  BY <1>11 DEF LowerTail, Goto
<1>12. ASSUME NEW t \in Threads, Count(t) PROVE LockInv'
  BY <1>12 DEF Count, Goto
<1>13. ASSUME NEW t \in Threads, Unlock(t) PROVE LockInv'
  BY <1>13 DEF Unlock, Goto, cells
<1>14. ASSUME NEW t \in Threads, Signal(t) PROVE LockInv'
  BY <1>14 DEF Signal, cells, Peers
<1>15. ASSUME NEW c \in Consumers, Finish(c) PROVE LockInv'
  BY <1>15 DEF Finish, Goto, cells
<1>16. ASSUME UNCHANGED vars PROVE LockInv'
  BY <1>16 DEF vars
<1> QED
  BY <1>1, <1>2, <1>3, <1>4, <1>5, <1>6, <1>7, <1>8, <1>9, <1>10, <1>11, <1>12,
     <1>13, <1>14, <1>15, <1>16 DEF Next, Enqueue, Dequeue, Common

(* Only workers run a task, and only a producer is out of its call.        *)
LEMMA NextSideInv == Inv /\ [Next]_vars => SideInv'
<1> SUFFICES ASSUME Inv, [Next]_vars PROVE SideInv'
  OBVIOUS
<1> USE QueueAssumption DEF Inv, TypeOK, Threads, SideInv
<1>1. ASSUME NEW p \in Producers, Call(p) PROVE SideInv'
  BY <1>1 DEF Call, Goto
<1>2. ASSUME NEW t \in Threads, Common(t) PROVE SideInv'
  BY <1>2 DEF Common, LockGate, Test, Sleep, LockSize, LockEnd, Count, Unlock, Signal,
              Goto, Peers
<1>3. ASSUME NEW p \in Producers, Shift(p) \/ RaiseTail(p) PROVE SideInv'
  BY <1>3 DEF Shift, RaiseTail, Goto
<1>4. ASSUME NEW c \in Consumers, Take(c) \/ LowerTail(c) \/ Finish(c) PROVE SideInv'
  BY <1>4 DEF Take, LowerTail, Finish, Goto
<1>5. ASSUME NEW t \in Threads, SpuriousWakeup(t) PROVE SideInv'
  BY <1>5 DEF SpuriousWakeup, Goto
<1>6. ASSUME UNCHANGED vars PROVE SideInv'
  BY <1>6 DEF vars
<1> QED
  BY <1>1, <1>2, <1>3, <1>4, <1>5, <1>6 DEF Next, Enqueue, Dequeue

(* Only Test lets a thread in and only Count changes the size; both hold   *)
(* the gate, and Count holds the size, so what one side found true stays   *)
(* true: the other side moves the size the other way.                      *)
LEMMA NextRoomInv == Inv /\ [Next]_vars => RoomInv'
<1> SUFFICES ASSUME Inv, [Next]_vars PROVE RoomInv'
  OBVIOUS
<1> USE QueueAssumption DEF Inv, TypeOK, Threads, RoomInv, Tested
<1>1. ASSUME NEW p \in Producers, Call(p) PROVE RoomInv'
  BY <1>1 DEF Call, Goto, cells
<1>2. ASSUME NEW t \in Threads, LockGate(t) PROVE RoomInv'
  BY <1>2 DEF LockGate, Goto, cells
<1>3. ASSUME NEW t \in Threads, Test(t) PROVE RoomInv'
  BY <1>3 DEF Test, Goto, cells, Blocked
<1>4. ASSUME NEW t \in Threads, Sleep(t) \/ SpuriousWakeup(t) PROVE RoomInv'
  BY <1>4 DEF Sleep, SpuriousWakeup, Goto, cells
<1>5. ASSUME NEW t \in Threads, LockSize(t) \/ LockEnd(t) PROVE RoomInv'
  BY <1>5 DEF LockSize, LockEnd, Goto, cells
<1>6. ASSUME NEW p \in Producers, Shift(p) \/ RaiseTail(p) PROVE RoomInv'
  BY <1>6 DEF Shift, RaiseTail, Goto
<1>7. ASSUME NEW c \in Consumers, Take(c) \/ LowerTail(c) PROVE RoomInv'
  BY <1>7 DEF Take, LowerTail, Goto, cells
<1>8. ASSUME NEW t \in Threads, Count(t) PROVE RoomInv'
  <2>1. pc[t] = "count"
    BY <1>8 DEF Count, Goto
  <2>2. \A u \in Threads : u # t /\ Gate(u) = Gate(t) => pc[u] \notin Tested
    BY <2>1, Exclusion DEF InGate
  <2>3. CASE t \in Producers
    BY <1>8, <2>1, <2>2, <2>3 DEF Count, Goto, Gate
  <2>4. CASE t \in Consumers
    BY <1>8, <2>1, <2>2, <2>4 DEF Count, Goto, Gate
  <2> QED
    BY <2>3, <2>4
<1>9. ASSUME NEW t \in Threads, Unlock(t) PROVE RoomInv'
  BY <1>9 DEF Unlock, Goto, cells
<1>10. ASSUME NEW t \in Threads, Signal(t) PROVE RoomInv'
  BY <1>10 DEF Signal, cells, Peers
<1>11. ASSUME NEW c \in Consumers, Finish(c) PROVE RoomInv'
  BY <1>11 DEF Finish, Goto, cells
<1>12. ASSUME UNCHANGED vars PROVE RoomInv'
  BY <1>12 DEF vars, cells
<1> QED
  BY <1>1, <1>2, <1>3, <1>4, <1>5, <1>6, <1>7, <1>8, <1>9, <1>10, <1>11, <1>12
     DEF Next, Enqueue, Dequeue, Common

(* The size mutex excludes a second thread from the tail, whichever end's  *)
(* mutex that thread holds.                                                *)
LEMMA NextTailInv == Inv /\ [Next]_vars => TailInv'
<1> SUFFICES ASSUME Inv, [Next]_vars PROVE TailInv'
  OBVIOUS
<1> USE QueueAssumption DEF Inv, TypeOK, Threads, TailInv
<1>1. ASSUME NEW p \in Producers, Call(p) PROVE TailInv'
  BY <1>1 DEF Call, Goto, cells
<1>2. ASSUME NEW t \in Threads, LockGate(t) \/ Test(t) \/ Sleep(t) \/ SpuriousWakeup(t)
      PROVE TailInv'
  BY <1>2 DEF LockGate, Test, Sleep, SpuriousWakeup, Goto, cells
<1>3. ASSUME NEW t \in Threads, LockSize(t) \/ LockEnd(t) \/ Unlock(t) PROVE TailInv'
  BY <1>3 DEF LockSize, LockEnd, Unlock, Goto, cells
<1>4. ASSUME NEW p \in Producers, Shift(p) PROVE TailInv'
  BY <1>4 DEF Shift, Goto
<1>5. ASSUME NEW c \in Consumers, Take(c) \/ Finish(c) PROVE TailInv'
  BY <1>5 DEF Take, Finish, Goto, cells
<1>6. ASSUME NEW p \in Producers, RaiseTail(p) PROVE TailInv'
  <2>1. pc[p] = "tail" /\ p \in Threads
    BY <1>6 DEF RaiseTail, Goto
  <2>2. \A u \in Threads : u # p => pc[u] # "count"
    BY <2>1, Exclusion DEF InSize
  <2> QED
    BY <1>6, <2>1, <2>2 DEF RaiseTail, Goto
<1>7. ASSUME NEW c \in Consumers, LowerTail(c) PROVE TailInv'
  <2>1. pc[c] = "tail" /\ c \in Threads
    BY <1>7 DEF LowerTail, Goto
  <2>2. \A u \in Threads : u # c => pc[u] # "count"
    BY <2>1, Exclusion DEF InSize
  <2>3. size > 0
    BY <2>1 DEF RoomInv, Tested
  <2> QED
    BY <1>7, <2>1, <2>2, <2>3 DEF LowerTail, Goto
<1>8. ASSUME NEW t \in Threads, Count(t) PROVE TailInv'
  <2>1. pc[t] = "count"
    BY <1>8 DEF Count, Goto
  <2>2. \A u \in Threads : u # t => pc[u] # "count"
    BY <2>1, Exclusion DEF InSize
  <2>3. t \in Consumers => size > 0
    BY <2>1 DEF RoomInv, Tested
  <2> QED
    BY <1>8, <2>1, <2>2, <2>3 DEF Count, Goto
<1>9. ASSUME NEW t \in Threads, Signal(t) PROVE TailInv'
  BY <1>9 DEF Signal, cells, Peers
<1>10. ASSUME UNCHANGED vars PROVE TailInv'
  BY <1>10 DEF vars
<1> QED
  BY <1>1, <1>2, <1>3, <1>4, <1>5, <1>6, <1>7, <1>8, <1>9, <1>10
     DEF Next, Enqueue, Dequeue, Common

(* The queue is well-typed and consistent in every state: no index leaves  *)
(* the buffer although the buffer has no bounds check of its own.          *)
LEMMA Invariance == Residue = {0} /\ Spec => []Inv
<1>1. Inv /\ [Next]_vars => Inv'
  BY NextTypeOK, NextLockInv, NextSideInv, NextRoomInv, NextTailInv DEF Inv
<1> QED
  BY <1>1, InitInv, PTL DEF Spec

(* Type correctness: every field keeps its range, although the code checks *)
(* no index and the size is a plain counter that could pass below zero.    *)
THEOREM TypeCorrect == Residue = {0} /\ Spec => []TypeOK
<1>1. Inv => TypeOK
  BY DEF Inv
<1> QED
  BY <1>1, Invariance, PTL

(* With two workers or more a lost wakeup does not strand a task: for all  *)
(* workers to be drowsy one of two must have joined the sleepers, since    *)
(* "sleep" holds the gate, and a signal reaches it.                        *)
THEOREM TwoWorkersNotStranded ==
  ASSUME NEW a \in Consumers, NEW b \in Consumers, a # b
  PROVE  Residue = {0} /\ Spec => []NotStranded
<1>1. Residue = {0} /\ Init => NotStranded
  BY DEF Init, NotStranded
<1>2. Inv /\ NotStranded /\ [Next]_vars => NotStranded'
  <2> SUFFICES ASSUME Inv, NotStranded, [Next]_vars, size' > 0,
                      \A c \in Consumers : Drowsy(c)'
               PROVE  \E p \in Producers : OwesSignal(p)'
    BY DEF NotStranded
  <2> USE QueueAssumption DEF Inv, TypeOK, SideInv, Threads, Drowsy, OwesSignal
  <2>1. ASSUME NEW p \in Producers, Call(p) PROVE \E q \in Producers : OwesSignal(q)'
    BY <2>1 DEF Call, Goto, cells, NotStranded
  <2>2. ASSUME NEW t \in Threads, Test(t) PROVE \E q \in Producers : OwesSignal(q)'
    BY <2>2 DEF Test, Goto, cells, Blocked, NotStranded
  <2>3. ASSUME NEW t \in Threads, LockGate(t) \/ LockSize(t) \/ LockEnd(t)
        PROVE \E q \in Producers : OwesSignal(q)'
    BY <2>3 DEF LockGate, LockSize, LockEnd, Goto, cells, NotStranded
  <2>4. ASSUME NEW t \in Threads, Sleep(t) \/ SpuriousWakeup(t)
        PROVE \E q \in Producers : OwesSignal(q)'
    BY <2>4 DEF Sleep, SpuriousWakeup, Goto, cells, NotStranded
  <2>5. ASSUME NEW p \in Producers, Shift(p) \/ RaiseTail(p)
        PROVE \E q \in Producers : OwesSignal(q)'
    BY <2>5 DEF Shift, RaiseTail, Goto, NotStranded
  <2>6. ASSUME NEW c \in Consumers, Take(c) \/ LowerTail(c) \/ Finish(c)
        PROVE \E q \in Producers : OwesSignal(q)'
    BY <2>6 DEF Take, LowerTail, Finish, Goto
  <2>7. ASSUME NEW t \in Threads, Count(t) PROVE \E q \in Producers : OwesSignal(q)'
    BY <2>7 DEF Count, Goto
  <2>8. ASSUME NEW t \in Threads, Unlock(t) PROVE \E q \in Producers : OwesSignal(q)'
    BY <2>8 DEF Unlock, Goto, cells, NotStranded
  <2>9. ASSUME NEW t \in Threads, Signal(t) PROVE \E q \in Producers : OwesSignal(q)'
    <3>1. t \in Producers
      BY <2>9 DEF Signal, Peers
    <3>2. \A c \in Consumers : pc[c] # "asleep"
      BY <2>9, <3>1 DEF Signal, Peers
    <3>3. pc[a] = "sleep" /\ pc[b] = "sleep"
      BY <2>9, <3>1, <3>2 DEF Signal, Peers
    <3> QED
      BY <3>3, Exclusion DEF Gate, InGate
  <2>10. ASSUME UNCHANGED vars PROVE \E q \in Producers : OwesSignal(q)'
    BY <2>10 DEF vars, NotStranded
  <2> QED
    BY <2>1, <2>2, <2>3, <2>4, <2>5, <2>6, <2>7, <2>8, <2>9, <2>10
       DEF Next, Enqueue, Dequeue, Common
<1> QED
  BY <1>1, <1>2, Invariance, PTL DEF Spec

-----------------------------------------------------------------------------
(***************************************************************************)
(* TaskQueue implements BoundedFifo, for every number of threads, every    *)
(* capacity and every set of tasks.  Only Count moves the contents and     *)
(* only Count and Finish what the workers hold: the other steps stutter.   *)
(***************************************************************************)

(* The task in each thread's hand is the one the buffer moves. *)
HandInv ==
  /\ \A p \in Producers : /\ pc[p] # "idle" => held[p] # NoTask
                          /\ pc[p] \in {"tail", "count"} => buffer[0] = held[p]
  /\ \A c \in Consumers : pc[c] \in {"tail", "count"} => held[c] = buffer[size - 1]

(* A task is in one place: one producer's hand, one slot of the queue or   *)
(* one worker's hand.                                                      *)
UniqueInv ==
  /\ \A p \in Producers : Carries(p) =>
       /\ held[p] \in allocated
       /\ \A i \in 1 .. size : Contents[i] # held[p]
       /\ \A c \in Consumers : Obtained[c] # held[p]
       /\ \A q \in Producers : Carries(q) /\ q # p => held[q] # held[p]
  /\ \A i \in 1 .. size :
       /\ Contents[i] \in allocated
       /\ \A j \in 1 .. size : Contents[i] = Contents[j] => i = j
       /\ \A c \in Consumers : Obtained[c] # Contents[i]
  /\ \A c \in Consumers : Obtained[c] # NoTask =>
       /\ Obtained[c] \in allocated
       /\ \A d \in Consumers : Obtained[d] = Obtained[c] => d = c

(* The steps inside a call: they move neither the contents nor what the    *)
(* workers hold, and change no task's owner.                               *)
Quiet == \/ \E p \in Producers : Shift(p) \/ RaiseTail(p)
         \/ \E c \in Consumers : Take(c) \/ LowerTail(c)
         \/ \E t \in Threads : \/ LockGate(t) \/ Test(t) \/ Sleep(t) \/ SpuriousWakeup(t)
                               \/ LockSize(t) \/ LockEnd(t) \/ Unlock(t) \/ Signal(t)
         \/ UNCHANGED vars

-----------------------------------------------------------------------------
(* A step is a call, a count, the end of a task or quiet.                  *)
LEMMA NextCases ==
  [Next]_vars <=> \/ Quiet
                  \/ \E p \in Producers : Call(p)
                  \/ \E t \in Threads : Count(t)
                  \/ \E c \in Consumers : Finish(c)
BY DEF Next, Enqueue, Dequeue, Common, Quiet, Threads

(* Shifting moves each element one slot up and Contents looks one slot up. *)
LEMMA ShiftKeepsContents ==
  ASSUME Inv, NEW p \in Producers, Shift(p)
  PROVE  Contents' = Contents
<1> USE QueueAssumption DEF Inv, TypeOK, Threads
<1>1. pc[p] = "move" /\ p \in Threads /\ pc' = [pc EXCEPT ![p] = "tail"]
  BY DEF Shift, Goto
<1>2. \A t \in Threads : t # p => pc[t] \notin {"tail", "count"}
  BY <1>1, Exclusion DEF InSize
<1>3. ~Shifted /\ Shifted'
  BY <1>1, <1>2 DEF Shifted
<1>4. size < Capacity /\ head = 0 /\ tail = IF size = 0 THEN 0 ELSE size - 1
  BY <1>1, <1>2 DEF RoomInv, Tested, TailInv
<1>5. \A i \in 1 .. size : buffer'[size - i + 1] = buffer[size - i]
  BY <1>4 DEF Shift, Slots
<1> QED
  BY <1>3, <1>5 DEF Contents, Shift

(* Quiet steps do not move the contents or what the workers hold.          *)
LEMMA QuietKeepsQueue ==
  ASSUME Inv, Quiet
  PROVE  Contents' = Contents /\ Obtained' = Obtained
<1> USE QueueAssumption DEF Inv, TypeOK, Threads, SideInv
<1>2. ASSUME NEW p \in Producers, Shift(p)
      PROVE Contents' = Contents /\ Obtained' = Obtained
  BY <1>2, ShiftKeepsContents DEF Shift, Goto, Obtained
<1>3. ASSUME NEW p \in Producers, RaiseTail(p)
      PROVE Contents' = Contents /\ Obtained' = Obtained
  BY <1>3 DEF RaiseTail, Goto, Contents, Obtained, Shifted
<1>4. ASSUME NEW c \in Consumers, Take(c)
      PROVE Contents' = Contents /\ Obtained' = Obtained
  BY <1>4 DEF Take, Goto, cells, Contents, Obtained, Shifted
<1>5. ASSUME NEW c \in Consumers, LowerTail(c)
      PROVE Contents' = Contents /\ Obtained' = Obtained
  BY <1>5 DEF LowerTail, Goto, Contents, Obtained, Shifted
<1>6. ASSUME NEW t \in Threads, LockGate(t) \/ Test(t) \/ Sleep(t) \/ SpuriousWakeup(t)
      PROVE Contents' = Contents /\ Obtained' = Obtained
  BY <1>6 DEF LockGate, Test, Sleep, SpuriousWakeup, Goto, cells, Contents, Obtained, Shifted
<1>7. ASSUME NEW t \in Threads, LockSize(t) \/ LockEnd(t) \/ Unlock(t)
      PROVE Contents' = Contents /\ Obtained' = Obtained
  BY <1>7 DEF LockSize, LockEnd, Unlock, Goto, cells, Contents, Obtained, Shifted
<1>8. ASSUME NEW t \in Threads, Signal(t)
      PROVE Contents' = Contents /\ Obtained' = Obtained
  BY <1>8 DEF Signal, Peers, cells, Contents, Obtained, Shifted
<1>9. ASSUME UNCHANGED vars
      PROVE Contents' = Contents /\ Obtained' = Obtained
  BY <1>9 DEF vars, Contents, Obtained, Shifted
<1> QED
  BY <1>2, <1>3, <1>4, <1>5, <1>6, <1>7, <1>8, <1>9 DEF Quiet

(* Quiet steps leave the producers' tasks where they are.                  *)
LEMMA QuietKeepsHands ==
  ASSUME Inv, Quiet
  PROVE  /\ UNCHANGED <<size, allocated>>
         /\ \A p \in Producers : Carries(p)' <=> Carries(p)
         /\ \A p \in Producers : Carries(p) => held'[p] = held[p]
<1> USE QueueAssumption DEF Inv, TypeOK, Threads, SideInv, Carries
<1> DEFINE Kept == /\ UNCHANGED <<size, allocated>>
                   /\ \A p \in Producers : Carries(p)' <=> Carries(p)
                   /\ \A p \in Producers : Carries(p) => held'[p] = held[p]
<1>1. ASSUME NEW p \in Producers, Shift(p) \/ RaiseTail(p) PROVE Kept
  BY <1>1 DEF Shift, RaiseTail, Goto
<1>2. ASSUME NEW c \in Consumers, Take(c) \/ LowerTail(c) PROVE Kept
  BY <1>2 DEF Take, LowerTail, Goto, cells
<1>3. ASSUME NEW t \in Threads, LockGate(t) \/ Test(t) \/ Sleep(t) \/ SpuriousWakeup(t)
      PROVE Kept
  BY <1>3 DEF LockGate, Test, Sleep, SpuriousWakeup, Goto, cells
<1>4. ASSUME NEW t \in Threads, LockSize(t) \/ LockEnd(t) \/ Unlock(t) PROVE Kept
  BY <1>4 DEF LockSize, LockEnd, Unlock, Goto, cells
<1>5. ASSUME NEW t \in Threads, Signal(t) PROVE Kept
  BY <1>5 DEF Signal, Peers, cells
<1>6. ASSUME UNCHANGED vars PROVE Kept
  BY <1>6 DEF vars
<1> QED
  BY <1>1, <1>2, <1>3, <1>4, <1>5, <1>6 DEF Quiet

(* A call takes a task that nobody has, and only that producer has it.     *)
LEMMA CallAllocates ==
  ASSUME Inv, NEW p \in Producers, Call(p)
  PROVE  /\ UNCHANGED <<size, Contents, Obtained>>
         /\ ~Carries(p) /\ Carries(p)'
         /\ held'[p] \in Tasks \ allocated
         /\ allocated' = allocated \cup {held'[p]}
         /\ \A q \in Producers \ {p} : /\ Carries(q)' <=> Carries(q)
                                       /\ held'[q] = held[q]
BY QueueAssumption DEF Inv, TypeOK, Threads, SideInv, Carries, Call, Goto, cells, Contents,
   Obtained, Shifted

(* Counting up makes the producer's task the youngest of the contents. *)
LEMMA CountPuts ==
  ASSUME Inv, HandInv, NEW p \in Producers, Count(p)
  PROVE  /\ size < Capacity /\ size' = size + 1
         /\ \A i \in 1 .. size : Contents'[i] = Contents[i]
         /\ Contents'[size + 1] = held[p]
         /\ UNCHANGED Obtained
<1> USE QueueAssumption DEF Inv, TypeOK, Threads, SideInv
<1>1. pc[p] = "count" /\ p \in Threads /\ pc' = [pc EXCEPT ![p] = "unlock"]
  BY DEF Count, Goto
<1>2. \A t \in Threads : t # p => pc[t] \notin {"tail", "count"}
  BY <1>1, Exclusion DEF InSize
<1>3. Shifted /\ ~Shifted'
  BY <1>1, <1>2 DEF Shifted
<1>4. size < Capacity /\ size' = size + 1 /\ buffer' = buffer /\ buffer[0] = held[p]
  BY <1>1 DEF RoomInv, Tested, HandInv, Count
<1>5. Contents = [i \in 1 .. size |-> buffer[size - i + 1]]
  BY <1>3 DEF Contents
<1>6. Contents' = [i \in 1 .. size + 1 |-> buffer[size + 1 - i + 0]]
  BY <1>3, <1>4 DEF Contents
<1>7. UNCHANGED Obtained
  BY <1>1 DEF Obtained, Count
<1> QED
  BY <1>4, <1>5, <1>6, <1>7

(* Counting down takes the oldest of the contents for the worker. *)
LEMMA CountGets ==
  ASSUME Inv, HandInv, NEW c \in Consumers, Count(c)
  PROVE  /\ size > 0 /\ size' = size - 1
         /\ \A i \in 1 .. size - 1 : Contents'[i] = Contents[i + 1]
         /\ Obtained[c] = NoTask
         /\ Obtained' = [Obtained EXCEPT ![c] = Contents[1]]
<1> USE QueueAssumption DEF Inv, TypeOK, Threads, SideInv
<1>1. pc[c] = "count" /\ c \in Threads /\ pc' = [pc EXCEPT ![c] = "unlock"] /\ c \notin Producers
  BY DEF Count, Goto
<1>2. \A t \in Threads : t # c => pc[t] \notin {"tail", "count"}
  BY <1>1, Exclusion DEF InSize
<1>3. ~Shifted /\ ~Shifted'
  BY <1>1, <1>2 DEF Shifted
<1>4. size > 0 /\ size' = size - 1 /\ buffer' = buffer /\ held[c] = buffer[size - 1]
  BY <1>1 DEF RoomInv, Tested, HandInv, Count
<1>5. Contents = [i \in 1 .. size |-> buffer[size - i + 0]]
  BY <1>3 DEF Contents
<1>6. Contents' = [i \in 1 .. size - 1 |-> buffer[size - 1 - i + 0]]
  BY <1>3, <1>4 DEF Contents
<1>7. Contents[1] = held[c]
  BY <1>4, <1>5
<1>8. Obtained[c] = NoTask /\ Obtained' = [Obtained EXCEPT ![c] = Contents[1]]
  BY <1>1, <1>7 DEF Obtained, Count
<1> QED
  BY <1>4, <1>5, <1>6, <1>8

(* A worker that ends its task holds nothing, and moves no contents.       *)
LEMMA FinishReleases ==
  ASSUME Inv, NEW c \in Consumers, Finish(c)
  PROVE  /\ UNCHANGED <<Contents, size>>
         /\ Obtained[c] = held[c]
         /\ Obtained' = [Obtained EXCEPT ![c] = NoTask]
BY QueueAssumption DEF Inv, TypeOK, Threads, Finish, Goto, cells, Contents, Obtained, Shifted

-----------------------------------------------------------------------------
(* Under size_lock, hand and buffer agree from the move to the count.      *)
LEMMA NextHandInv == Inv /\ HandInv /\ [Next]_vars => HandInv'
<1> SUFFICES ASSUME Inv, HandInv, [Next]_vars PROVE HandInv'
  OBVIOUS
<1> USE QueueAssumption DEF Inv, TypeOK, Threads, SideInv, HandInv
<1>1. ASSUME NEW p \in Producers, Call(p) PROVE HandInv'
  BY <1>1 DEF Call, Goto, cells
<1>2. ASSUME NEW p \in Producers, Shift(p) PROVE HandInv'
  <2>1. pc[p] = "move" /\ p \in Threads
    BY <1>2 DEF Shift, Goto
  <2>2. \A t \in Threads : t # p => pc[t] \notin {"tail", "count"}
    BY <2>1, Exclusion DEF InSize
  <2>3. buffer'[0] = held[p]
    BY <1>2 DEF Shift, TailInv, Slots
  <2> QED
    BY <1>2, <2>1, <2>2, <2>3 DEF Shift, Goto
<1>3. ASSUME NEW p \in Producers, RaiseTail(p) PROVE HandInv'
  BY <1>3 DEF RaiseTail, Goto
<1>4. ASSUME NEW c \in Consumers, Take(c) PROVE HandInv'
  <2>1. pc[c] = "move" /\ c \in Threads
    BY <1>4 DEF Take, Goto
  <2>2. \A t \in Threads : pc[t] # "count"
    BY <2>1, Exclusion DEF InSize
  <2>3. tail = size - 1
    BY <2>1, <2>2 DEF TailInv, RoomInv, Tested
  <2> QED
    BY <1>4, <2>1, <2>3 DEF Take, Goto, cells
<1>5. ASSUME NEW c \in Consumers, LowerTail(c) PROVE HandInv'
  BY <1>5 DEF LowerTail, Goto
<1>6. ASSUME NEW t \in Threads, LockGate(t) \/ Test(t) \/ Sleep(t) \/ SpuriousWakeup(t)
      PROVE HandInv'
  BY <1>6 DEF LockGate, Test, Sleep, SpuriousWakeup, Goto, cells
<1>7. ASSUME NEW t \in Threads, LockSize(t) \/ LockEnd(t) \/ Unlock(t) PROVE HandInv'
  BY <1>7 DEF LockSize, LockEnd, Unlock, Goto, cells
<1>8. ASSUME NEW t \in Threads, Signal(t) PROVE HandInv'
  BY <1>8 DEF Signal, Peers, cells
<1>9. ASSUME NEW t \in Threads, Count(t) PROVE HandInv'
  <2>1. pc[t] = "count"
    BY <1>9 DEF Count, Goto
  <2>2. \A u \in Threads : u # t => pc[u] \notin {"tail", "count"}
    BY <2>1, Exclusion DEF InSize
  <2> QED
    BY <1>9, <2>1, <2>2 DEF Count, Goto
<1>10. ASSUME NEW c \in Consumers, Finish(c) PROVE HandInv'
  BY <1>10 DEF Finish, Goto, cells
<1>11. ASSUME UNCHANGED vars PROVE HandInv'
  BY <1>11 DEF vars
<1> QED
  BY <1>1, <1>2, <1>3, <1>4, <1>5, <1>6, <1>7, <1>8, <1>9, <1>10, <1>11
     DEF Next, Enqueue, Dequeue, Common

(* malloc returns an address nobody holds, so Call keeps tasks apart; a    *)
(* quiet step moves none; Count passes one on; Finish drops one.           *)
LEMMA NextUniqueInv == Inv /\ HandInv /\ UniqueInv /\ [Next]_vars => UniqueInv'
<1> SUFFICES ASSUME Inv, HandInv, UniqueInv, [Next]_vars PROVE UniqueInv'
  OBVIOUS
<1> USE QueueAssumption DEF Inv, TypeOK, Threads, SideInv
<1>1. CASE Quiet
  BY <1>1, QuietKeepsQueue, QuietKeepsHands DEF UniqueInv
<1>2. ASSUME NEW p \in Producers, Call(p) PROVE UniqueInv'
  <2>1. held'[p] # NoTask
    BY <1>2, CallAllocates
  <2> QED
    BY <1>2, <2>1, CallAllocates DEF UniqueInv
<1>3. ASSUME NEW p \in Producers, Count(p) PROVE UniqueInv'
  <2>1. /\ Carries(p) /\ ~Carries(p)' /\ UNCHANGED <<held, allocated>>
        /\ \A q \in Producers \ {p} : Carries(q)' <=> Carries(q)
    BY <1>3 DEF Count, Goto, Carries
  <2>2. /\ size' = size + 1
        /\ \A i \in 1 .. size : Contents'[i] = Contents[i]
        /\ Contents'[size + 1] = held[p]
        /\ UNCHANGED Obtained
    BY <1>3, CountPuts
  <2>3. \A i \in 1 .. size' : i \in 1 .. size \/ i = size + 1
    BY <2>2
  <2> QED
    BY <2>1, <2>2, <2>3 DEF UniqueInv
<1>4. ASSUME NEW c \in Consumers, Count(c) PROVE UniqueInv'
  <2>1. /\ UNCHANGED <<held, allocated>>
        /\ \A q \in Producers : Carries(q)' <=> Carries(q)
    BY <1>4 DEF Count, Goto, Carries
  <2>2. /\ size > 0 /\ size' = size - 1
        /\ \A i \in 1 .. size - 1 : Contents'[i] = Contents[i + 1]
        /\ Obtained' = [Obtained EXCEPT ![c] = Contents[1]]
    BY <1>4, CountGets
  <2>3. Obtained \in [Consumers -> Tasks \cup {NoTask}]
    BY DEF Obtained
  <2>4. \A d \in Consumers : Obtained'[d] = IF d = c THEN Contents[1] ELSE Obtained[d]
    BY <2>2, <2>3
  <2>5. \A i \in 1 .. size' : i \in 1 .. size - 1 /\ i + 1 \in 1 .. size /\ i + 1 # 1
    BY <2>2
  <2> HIDE DEF TypeOK
  <2>6. 1 \in 1 .. size
    BY <2>2 DEF TypeOK
  <2> QED
    BY <2>1, <2>2, <2>4, <2>5, <2>6 DEF UniqueInv
<1>5. ASSUME NEW c \in Consumers, Finish(c) PROVE UniqueInv'
  <2>1. /\ allocated' = allocated \ {held[c]} /\ pc[c] = "run"
        /\ \A q \in Producers : (Carries(q)' <=> Carries(q)) /\ held'[q] = held[q]
    BY <1>5 DEF Finish, Goto, Carries
  <2>2. Obtained \in [Consumers -> Tasks \cup {NoTask}]
    BY DEF Obtained
  <2>3. /\ UNCHANGED <<Contents, size>> /\ Obtained[c] = held[c]
        /\ \A d \in Consumers : Obtained'[d] = IF d = c THEN NoTask ELSE Obtained[d]
    BY <1>5, <2>2, FinishReleases
  <2> QED
    BY <2>1, <2>3 DEF UniqueInv
<1> QED
  BY <1>1, <1>2, <1>3, <1>4, <1>5, NextCases

(* The strengthening holds in every state the queue reaches.               *)
LEMMA RefinementInvariance ==
  Residue = {0} /\ Spec => [](Inv /\ HandInv /\ UniqueInv)
<1>1. Residue = {0} /\ Init => HandInv /\ UniqueInv
  BY QueueAssumption DEF Init, HandInv, UniqueInv, Carries, Obtained, Threads
<1> QED
  BY <1>1, NextHandInv, NextUniqueInv, Invariance, PTL DEF Spec

-----------------------------------------------------------------------------
(* The occupied slots, oldest first, are a sequence of tasks.              *)
LEMMA ContentsIsSequence ==
  ASSUME Inv, UniqueInv
  PROVE  Contents \in Seq(Tasks) /\ Len(Contents) = size
<1> USE DEF Inv, TypeOK
<1>1. DOMAIN Contents = 1 .. size /\ Contents = [i \in 1 .. size |-> Contents[i]]
  BY DEF Contents
<1>2. \A i \in 1 .. size : Contents[i] \in Tasks
  BY DEF UniqueInv
<1> QED
  BY <1>1, <1>2, SeqDef, LenProperties

(* The count of a producer is the Put of its task.                         *)
LEMMA PutStep ==
  ASSUME Inv, HandInv, UniqueInv, Inv', UniqueInv', NEW p \in Producers, Count(p)
  PROVE  Fifo!Put(held[p])
<1>1. Contents \in Seq(Tasks) /\ Len(Contents) = size
  BY ContentsIsSequence
<1>2. Contents' \in Seq(Tasks) /\ Len(Contents') = size'
  <2>1. DOMAIN Contents' = 1 .. size' /\ Contents' = [i \in 1 .. size' |-> Contents'[i]]
    BY DEF Contents
  <2>2. \A i \in 1 .. size' : Contents'[i] \in Tasks
    BY DEF UniqueInv, Inv, TypeOK
  <2> QED
    BY <2>1, <2>2, SeqDef, LenProperties DEF Inv, TypeOK
<1>3. /\ size < Capacity /\ size' = size + 1
      /\ \A i \in 1 .. size : Contents'[i] = Contents[i]
      /\ Contents'[size + 1] = held[p]
      /\ UNCHANGED Obtained
  BY CountPuts
<1>4. Carries(p) /\ held[p] \in Tasks
  BY DEF Count, Goto, Carries, UniqueInv, Inv, TypeOK
<1>5. Contents' = Append(Contents, held[p])
  BY <1>1, <1>2, <1>3, <1>4, SMT
<1>6. held[p] \notin Fifo!Waiting \cup Fifo!Running
  BY <1>1, <1>4 DEF UniqueInv, Fifo!Waiting, Fifo!Running
<1> QED
  BY <1>1, <1>3, <1>5, <1>6 DEF Fifo!Put

(* The count of a worker is the Get of the oldest task.                    *)
LEMMA GetStep ==
  ASSUME Inv, HandInv, UniqueInv, Inv', UniqueInv', NEW c \in Consumers, Count(c)
  PROVE  Fifo!Get(c)
<1>1. Contents \in Seq(Tasks) /\ Len(Contents) = size
  BY ContentsIsSequence
<1>2. Contents' \in Seq(Tasks) /\ Len(Contents') = size'
  <2>1. DOMAIN Contents' = 1 .. size' /\ Contents' = [i \in 1 .. size' |-> Contents'[i]]
    BY DEF Contents
  <2>2. \A i \in 1 .. size' : Contents'[i] \in Tasks
    BY DEF UniqueInv, Inv, TypeOK
  <2> QED
    BY <2>1, <2>2, SeqDef, LenProperties DEF Inv, TypeOK
<1>3. /\ size > 0 /\ size' = size - 1
      /\ \A i \in 1 .. size - 1 : Contents'[i] = Contents[i + 1]
      /\ Obtained[c] = NoTask
      /\ Obtained' = [Obtained EXCEPT ![c] = Contents[1]]
  BY CountGets
<1>4. Contents # <<>> /\ Head(Contents) = Contents[1]
  BY <1>1, <1>3
<1>5. Contents' = Tail(Contents)
  BY <1>1, <1>2, <1>3
<1> QED
  BY <1>3, <1>4, <1>5 DEF Fifo!Get

(* The end of a task is the Done of the task.                              *)
LEMMA DoneStep ==
  ASSUME Inv, UniqueInv, NEW c \in Consumers, Finish(c)
  PROVE  Fifo!Done(c) \/ UNCHANGED <<Contents, Obtained>>
BY FinishReleases DEF Fifo!Done, Obtained, Inv, TypeOK, Threads

(* Although enqueue locks the head and dequeue the tail, the queue is a    *)
(* bounded first-in first-out buffer that hands each task to one worker.   *)
THEOREM FifoRefinement == Residue = {0} /\ Spec => ImplementsFifo
<1> DEFINE I == Inv /\ HandInv /\ UniqueInv
<1>1. Residue = {0} /\ Init => Fifo!Init
  BY QueueAssumption DEF Init, Fifo!Init, Contents, Obtained, Threads
<1>2. I /\ I' /\ [Next]_vars => [Fifo!Next]_(Fifo!vars)
  <2> SUFFICES ASSUME I, I', [Next]_vars PROVE [Fifo!Next]_(Fifo!vars)
    OBVIOUS
  <2>1. CASE Quiet
    BY <2>1, QuietKeepsQueue DEF Fifo!vars
  <2>2. ASSUME NEW p \in Producers, Call(p) PROVE [Fifo!Next]_(Fifo!vars)
    BY <2>2, CallAllocates DEF Fifo!vars
  <2>3. ASSUME NEW p \in Producers, Count(p) PROVE [Fifo!Next]_(Fifo!vars)
    <3>1. held[p] \in Tasks
      BY <2>3 DEF Count, Goto, Carries, UniqueInv, Inv, TypeOK
    <3> QED
      BY <2>3, <3>1, PutStep DEF Fifo!Next
  <2>4. ASSUME NEW c \in Consumers, Count(c) PROVE [Fifo!Next]_(Fifo!vars)
    BY <2>4, GetStep DEF Fifo!Next
  <2>5. ASSUME NEW c \in Consumers, Finish(c) PROVE [Fifo!Next]_(Fifo!vars)
    BY <2>5, DoneStep DEF Fifo!Next, Fifo!vars
  <2> QED
    BY <2>1, <2>2, <2>3, <2>4, <2>5, NextCases DEF Threads
<1> QED
  BY <1>1, <1>2, RefinementInvariance, PTL DEF Spec, ImplementsFifo, Fifo!Spec

Somewhere(t) == \/ \E p \in Producers : Carries(p) /\ held[p] = t
                \/ \E i \in 1 .. size : Contents[i] = t
                \/ \E c \in Consumers : Obtained[c] = t /\ Obtained[c] # NoTask

Accounted == \A t \in allocated : Somewhere(t)

(* What is somewhere is where NothingLost looks for it.                    *)
LEMMA AccountedIsNothingLost == UniqueInv /\ Accounted => NothingLost
<1>1. UniqueInv => \A t : Somewhere(t) => t \in allocated
  BY DEF UniqueInv, Somewhere
<1> QED
  BY <1>1 DEF NothingLost, Somewhere, Accounted

(* No task leaks: what main allocated and no worker freed is in a call or  *)
(* in the queue.                                                           *)
THEOREM TasksAccounted == Residue = {0} /\ Spec => []NothingLost
<1> DEFINE I == Inv /\ HandInv /\ UniqueInv
<1>1. Init => Accounted
  BY DEF Init, Accounted
<1>2. I /\ Accounted /\ [Next]_vars => Accounted'
  <2> SUFFICES ASSUME I, Accounted, [Next]_vars, NEW t \in allocated'
               PROVE  Somewhere(t)'
    BY DEF Accounted
  <2>1. t \in allocated => Somewhere(t)
    BY DEF Accounted
  <2>2. CASE Quiet
    BY <2>1, <2>2, QuietKeepsQueue, QuietKeepsHands DEF Somewhere
  <2>3. ASSUME NEW p \in Producers, Call(p) PROVE Somewhere(t)'
    BY <2>1, <2>3, CallAllocates DEF Somewhere
  <2>4. ASSUME NEW p \in Producers, Count(p) PROVE Somewhere(t)'
    <3>1. /\ UNCHANGED <<held, allocated>>
          /\ \A q \in Producers \ {p} : Carries(q) => Carries(q)'
      BY <2>4 DEF Count, Goto, Carries, Inv, TypeOK, Threads
    <3>2. /\ 1 .. size' = 1 .. size \cup {size + 1}
          /\ \A i \in 1 .. size : Contents'[i] = Contents[i]
          /\ Contents'[size + 1] = held[p]
          /\ UNCHANGED Obtained
      BY <2>4, CountPuts DEF Inv, TypeOK
    <3> QED
      BY <2>1, <3>1, <3>2 DEF Somewhere
  <2>5. ASSUME NEW c \in Consumers, Count(c) PROVE Somewhere(t)'
    <3>1. /\ UNCHANGED <<held, allocated>>
          /\ \A q \in Producers : Carries(q) => Carries(q)'
      BY <2>5, QueueAssumption DEF Count, Goto, Carries, Inv, TypeOK, Threads
    <3>2. Obtained \in [Consumers -> Tasks \cup {NoTask}]
      BY DEF Obtained, Inv, TypeOK, Threads
    <3>3. /\ size > 0 /\ size' = size - 1
          /\ \A i \in 1 .. size - 1 : Contents'[i] = Contents[i + 1]
          /\ Obtained[c] = NoTask
          /\ Obtained'[c] = Contents[1]
          /\ \A d \in Consumers \ {c} : Obtained'[d] = Obtained[d]
      BY <2>5, <3>2, CountGets
    <3>4. \A i \in 1 .. size : i = 1 \/ (i - 1 \in 1 .. size' /\ Contents'[i - 1] = Contents[i])
      BY <3>3 DEF Inv, TypeOK
    <3>5. t \in allocated /\ t # NoTask
      BY <3>1, QueueAssumption DEF Inv, TypeOK
    <3> QED
      BY <2>1, <3>1, <3>3, <3>4, <3>5 DEF Somewhere
  <2>6. ASSUME NEW c \in Consumers, Finish(c) PROVE Somewhere(t)'
    <3>1. /\ allocated' = allocated \ {held[c]}
          /\ \A q \in Producers : (Carries(q) => Carries(q)') /\ held'[q] = held[q]
      BY <2>6, QueueAssumption DEF Finish, Goto, Carries, Inv, TypeOK, Threads, SideInv
    <3>2. Obtained \in [Consumers -> Tasks \cup {NoTask}]
      BY DEF Obtained, Inv, TypeOK, Threads
    <3>3. /\ UNCHANGED <<Contents, size>> /\ Obtained[c] = held[c]
          /\ \A d \in Consumers \ {c} : Obtained'[d] = Obtained[d]
      BY <2>6, <3>2, FinishReleases
    <3> QED
      BY <2>1, <3>1, <3>3 DEF Somewhere
  <2> QED
    BY <2>2, <2>3, <2>4, <2>5, <2>6, NextCases DEF Threads
<1> QED
  BY <1>1, <1>2, RefinementInvariance, AccountedIsNothingLost, PTL DEF Spec
=============================================================================
