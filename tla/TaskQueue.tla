----------------------------- MODULE TaskQueue -----------------------------
(***************************************************************************)
(* The task queue of the broker (producer-consumer/producer-consumer.c)    *)
(* and the loop of the worker threads that drain it (mbroker.c,            *)
(* thread_init).  Producers call pcq_enqueue, consumers call pcq_dequeue.  *)
(*                                                                         *)
(* Both calls have the same shape: lock the condition variable's own mutex *)
(* (the gate), test the size, sleep or go on; lock the size and one end of *)
(* the buffer; move an element, the tail and the size; unlock; signal the  *)
(* other side.  One action is one step between two points where another    *)
(* thread can be noticed.  The gates of the two sides are different        *)
(* mutexes and the size is tested under the gate alone, so a signal can    *)
(* fall between Test and Sleep.                                            *)
(***************************************************************************)
EXTENDS Naturals

CONSTANTS Producers,   \* threads that enqueue: main, in the broker
          Consumers,   \* worker threads
          Tasks,       \* addresses malloc may return for a task
          Capacity,    \* pcq_capacity
          Residue,     \* what pcq_create may find in the fields it leaves unset
          NoTask,      \* no element
          Nobody       \* owner of a free mutex

Threads == Producers \cup Consumers

ASSUME QueueAssumption ==
  /\ Capacity \in Nat \ {0}
  /\ Residue \subseteq Nat
  /\ Producers \cap Consumers = {}
  /\ NoTask \notin Tasks
  /\ Nobody \notin Threads

VARIABLES buffer, head, tail, size,   \* pcq_buffer, pcq_head, ...
          mutex,       \* owner of each of the five mutexes
          pc,          \* next step of each thread
          held,        \* elem of an enqueue, removed_task and newtask of a worker
          allocated    \* tasks malloc'ed by main and not yet freed

vars == <<buffer, head, tail, size, mutex, pc, held, allocated>>
cells == <<buffer, head, tail, size>>

Mutexes == {"pusher", "popper", "size", "head", "tail"}

(* sizeof(task) bytes per element are allocated: room for two pointers. *)
Slots == 0 .. 2 * Capacity - 1

Labels == {"idle", "gate", "test", "sleep", "asleep", "size", "end",
           "move", "tail", "count", "unlock", "signal", "run"}

Gate(t) == IF t \in Producers THEN "pusher" ELSE "popper"
End(t) == IF t \in Producers THEN "head" ELSE "tail"
(* Mutant of Peers: each call signals the condition it sleeps on itself. *)
OwnSide(t) == IF t \in Producers THEN Producers ELSE Consumers

Peers(t) == IF t \in Producers THEN Consumers ELSE Producers
Blocked(t) == IF t \in Producers THEN size = Capacity ELSE size = 0

Goto(t, from, to) == /\ pc[t] = from
                     /\ pc' = [pc EXCEPT ![t] = to]

Acquire(m, t) == /\ mutex[m] = Nobody
                 /\ mutex' = [mutex EXCEPT ![m] = t]

-----------------------------------------------------------------------------
(* pcq_create sets the capacity and allocates the buffer; size, head and   *)
(* tail keep what the caller's memory held.                                *)
Init == /\ buffer = [i \in Slots |-> NoTask]
        /\ head \in Residue
        /\ tail \in Residue
        /\ size \in Residue
        /\ mutex = [m \in Mutexes |-> Nobody]
        /\ pc = [t \in Threads |-> IF t \in Producers THEN "idle" ELSE "gate"]
        /\ held = [t \in Threads |-> NoTask]
        /\ allocated = {}

(* main has read a request: it allocates a task and enqueues it. *)
Call(p) == /\ Goto(p, "idle", "gate")
           /\ \E t \in Tasks \ allocated :
                /\ held' = [held EXCEPT ![p] = t]
                /\ allocated' = allocated \cup {t}
           /\ UNCHANGED <<cells, mutex>>

(* Entering the call, or waking up inside pthread_cond_wait. *)
LockGate(t) == /\ Goto(t, "gate", "test")
               /\ Acquire(Gate(t), t)
               /\ UNCHANGED <<cells, held, allocated>>

Test(t) == /\ Goto(t, "test", IF Blocked(t) THEN "sleep" ELSE "size")
           /\ UNCHANGED <<cells, mutex, held, allocated>>

(* pthread_cond_wait: release the gate and join the sleepers, atomically. *)
Sleep(t) == /\ Goto(t, "sleep", "asleep")
            /\ mutex' = [mutex EXCEPT ![Gate(t)] = Nobody]
            /\ UNCHANGED <<cells, held, allocated>>

(* POSIX lets pthread_cond_wait return without a signal. *)
SpuriousWakeup(t) == /\ Goto(t, "asleep", "gate")
                     /\ UNCHANGED <<cells, mutex, held, allocated>>

(* Mutant of LockSize: only the lock of its own end guards a call. *)
SkipSizeLock(t) == /\ Goto(t, "size", "end")
                   /\ UNCHANGED <<cells, mutex, held, allocated>>

LockSize(t) == /\ Goto(t, "size", "end")
               /\ Acquire("size", t)
               /\ UNCHANGED <<cells, held, allocated>>

LockEnd(t) == /\ Goto(t, "end", "move")
              /\ Acquire(End(t), t)
              /\ UNCHANGED <<cells, held, allocated>>

(* Mutant of Shift: the oldest element is not moved. *)
ShiftShort(p) == /\ Goto(p, "move", "tail")
                 /\ buffer' = [i \in Slots |->
                                 CASE i = head -> held[p]
                                   [] size # 0 /\ i \in head + 1 .. tail -> buffer[i - 1]
                                   [] OTHER -> buffer[i]]
                 /\ UNCHANGED <<head, tail, size, mutex, held, allocated>>

(* pcq_enqueue shifts head..tail one slot up and stores elem at the head. *)
Shift(p) == /\ Goto(p, "move", "tail")
            /\ buffer' = [i \in Slots |->
                            CASE i = head -> held[p]
                              [] size # 0 /\ i \in head + 1 .. tail + 1 -> buffer[i - 1]
                              [] OTHER -> buffer[i]]
            /\ UNCHANGED <<head, tail, size, mutex, held, allocated>>

(* pcq_dequeue reads the slot at the tail; the slot itself is not cleared. *)
Take(c) == /\ Goto(c, "move", "tail")
           /\ held' = [held EXCEPT ![c] = buffer[tail]]
           /\ UNCHANGED <<cells, mutex, allocated>>

RaiseTail(p) == /\ Goto(p, "tail", "count")
                /\ tail' = IF size # 0 THEN tail + 1 ELSE tail
                /\ UNCHANGED <<buffer, head, size, mutex, held, allocated>>

(* Mutant of LowerTail: the last element lowers the tail too. *)
LowerTailAlways(c) == /\ Goto(c, "tail", "count")
                      /\ tail' = tail - 1
                      /\ UNCHANGED <<buffer, head, size, mutex, held, allocated>>

LowerTail(c) == /\ Goto(c, "tail", "count")
                /\ tail' = IF tail # head THEN tail - 1 ELSE tail
                /\ UNCHANGED <<buffer, head, size, mutex, held, allocated>>

Count(t) == /\ Goto(t, "count", "unlock")
            /\ size' = IF t \in Producers THEN size + 1 ELSE size - 1
            /\ UNCHANGED <<buffer, head, tail, mutex, held, allocated>>

Unlock(t) == /\ Goto(t, "unlock", "signal")
             /\ mutex' = [m \in Mutexes |-> IF mutex[m] = t THEN Nobody ELSE mutex[m]]
             /\ UNCHANGED <<cells, held, allocated>>

(* pthread_cond_signal, sent with no mutex held, wakes one sleeper of the  *)
(* other side if there is one; then the call returns.                      *)
Signal(t) ==
  LET sleepers == {s \in Peers(t) : pc[s] = "asleep"}
      return == IF t \in Producers THEN "idle" ELSE "run"
  IN /\ pc[t] = "signal"
     /\ IF sleepers = {}
          THEN pc' = [pc EXCEPT ![t] = return]
          ELSE \E s \in sleepers : pc' = [pc EXCEPT ![t] = return, ![s] = "gate"]
     /\ held' = IF t \in Producers THEN [held EXCEPT ![t] = NoTask] ELSE held
     /\ UNCHANGED <<cells, mutex, allocated>>

(* The handler returns; the worker frees the task and dequeues again. *)
Finish(c) == /\ Goto(c, "run", "gate")
             /\ held' = [held EXCEPT ![c] = NoTask]
             /\ allocated' = allocated \ {held[c]}
             /\ UNCHANGED <<cells, mutex>>

-----------------------------------------------------------------------------
Common(t) == \/ LockGate(t) \/ Test(t) \/ Sleep(t) \/ LockSize(t) \/ LockEnd(t)
             \/ Count(t) \/ Unlock(t) \/ Signal(t)
Enqueue(p) == Common(p) \/ Shift(p) \/ RaiseTail(p)
Dequeue(c) == Common(c) \/ Take(c) \/ LowerTail(c)

Next == \/ \E p \in Producers : Call(p) \/ Enqueue(p)
        \/ \E c \in Consumers : Dequeue(c) \/ Finish(c)
        \/ \E t \in Threads : SpuriousWakeup(t)

Spec == Init /\ [][Next]_vars

(* The scheduler runs every thread that is inside a queue call.  Nothing   *)
(* makes a client send a request, a sleeper wake up spuriously or a        *)
(* handler return.                                                         *)
Fairness == /\ \A p \in Producers : WF_vars(Enqueue(p))
            /\ \A c \in Consumers : WF_vars(Dequeue(c))

FairSpec == Spec /\ Fairness

(* Requests whose handlers do return: manager requests of a live client. *)
ShortHandlers == \A c \in Consumers : WF_vars(Finish(c))
-----------------------------------------------------------------------------
TypeOK == /\ buffer \in [Slots -> Tasks \cup {NoTask}]
          /\ head \in Nat /\ tail \in Nat /\ size \in Nat
          /\ mutex \in [Mutexes -> Threads \cup {Nobody}]
          /\ pc \in [Threads -> Labels]
          /\ held \in [Threads -> Tasks \cup {NoTask}]
          /\ allocated \subseteq Tasks

(* The queue as its callers see it: oldest element first.  A producer past *)
(* Shift has moved the elements but not counted its own yet.               *)
Shifted == \E p \in Producers : pc[p] \in {"tail", "count"}
Contents == [i \in 1 .. size |-> buffer[size - i + IF Shifted THEN 1 ELSE 0]]

(* The task a worker has dequeued, from the step that discounts it on. *)
Obtained == [c \in Consumers |->
               IF pc[c] \in {"unlock", "signal", "run"} THEN held[c] ELSE NoTask]

Fifo == INSTANCE BoundedFifo WITH queue <- Contents, taken <- Obtained

(* The two-lock queue is a bounded first-in first-out buffer: although     *)
(* enqueue holds the head's mutex and dequeue the tail's, no interleaving  *)
(* reorders, loses or duplicates a task, or overfills the buffer.          *)
ImplementsFifo == Fifo!Spec

(* A producer carries its task until it has counted it. *)
Carries(p) == pc[p] \notin {"idle", "unlock", "signal"}

(* Every task main has allocated and no worker has freed is either inside  *)
(* a call (pcq_enqueue has not stored it, pcq_dequeue has removed it, a    *)
(* handler runs it) or waits in the queue: none leaks between the two.     *)
NothingLost ==
  allocated = {held[p] : p \in {q \in Producers : Carries(q)}}
              \cup {Contents[i] : i \in 1 .. size}
              \cup {Obtained[c] : c \in {d \in Consumers : Obtained[d] # NoTask}}

(* A worker that found the queue empty and has not joined the sleepers, or *)
(* has: a signal sent before it joins them does not reach it.              *)
Drowsy(t) == pc[t] \in {"sleep", "asleep"}
OwesSignal(t) == pc[t] \in {"unlock", "signal"}

(* A lost wakeup never strands the queue when there are two workers or     *)
(* more: a task waits while every worker sleeps, or is about to, only if   *)
(* main has yet to send the signal for it.                                 *)
NotStranded == (size > 0 /\ \A c \in Consumers : Drowsy(c))
                 => \E p \in Producers : OwesSignal(p)

(* Every enqueued task is eventually handed to a worker, provided there    *)
(* are two workers or more and handlers return.                            *)
Served == \A t \in Tasks :
            (t \in Fifo!Waiting) ~> (\E c \in Consumers : Obtained[c] = t)

(* producer-consumer.h:49 says of pcq_dequeue "If the queue is empty,      *)
(* sleep until the queue has an element": a worker does not sleep on once  *)
(* the queue stays nonempty.                                               *)
SleepsUntilNonempty ==
  \A c \in Consumers : (pc[c] = "asleep" /\ size > 0) ~> (pc[c] # "asleep" \/ size = 0)
=============================================================================
