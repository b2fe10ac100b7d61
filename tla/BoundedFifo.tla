---------------------------- MODULE BoundedFifo ----------------------------
(***************************************************************************)
(* What pc_queue_t promises its callers (producer-consumer.h, lines 42-50):*)
(* a first-in first-out buffer of at most Capacity tasks.  A task is put   *)
(* at one end, leaves at the other, and goes to exactly one consumer.      *)
(***************************************************************************)
EXTENDS Naturals, Sequences

CONSTANTS Consumers,   \* the worker threads that dequeue
          Tasks,       \* the task structures main may allocate
          NoTask,      \* the value of taken[c] when c runs no task
          Capacity     \* the most tasks the queue holds

VARIABLES queue,       \* the tasks waiting, the oldest first
          taken        \* taken[c]: the task consumer c runs, or NoTask

vars == <<queue, taken>>

Waiting == {queue[i] : i \in DOMAIN queue}
Running == {taken[c] : c \in Consumers}

Init == /\ queue = <<>>
        /\ taken = [c \in Consumers |-> NoTask]

(* A task is put only while it is nowhere else, and only if it fits. *)
Put(t) == /\ Len(queue) < Capacity
          /\ t \notin Waiting \cup Running
          /\ queue' = Append(queue, t)
          /\ UNCHANGED taken

(* An idle consumer gets the task that has waited longest. *)
Get(c) == /\ queue # <<>>
          /\ taken[c] = NoTask
          /\ taken' = [taken EXCEPT ![c] = Head(queue)]
          /\ queue' = Tail(queue)

Done(c) == /\ taken[c] # NoTask
           /\ taken' = [taken EXCEPT ![c] = NoTask]
           /\ UNCHANGED queue

Next == \/ \E t \in Tasks : Put(t)
        \/ \E c \in Consumers : Get(c) \/ Done(c)

Spec == Init /\ [][Next]_vars
=============================================================================
