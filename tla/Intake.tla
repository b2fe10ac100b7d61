------------------------------- MODULE Intake -------------------------------
(***************************************************************************)
(* How a request reaches a worker and its answer the client: the clients   *)
(* (manager.c, pub.c, sub.c), the server's FIFO, the loop of main in       *)
(* mbroker.c, the queue of tasks, the workers, and the clients' FIFOs.     *)
(* The queue is what BoundedFifo promises.  What the handlers do to the    *)
(* boxes is the subject of Boxes: here an answer is any that they give.    *)
(*                                                                         *)
(* A FIFO is opened when there is one process on each side of it; one that *)
(* waits on its side is there already.  Who writes to a FIFO that has no   *)
(* reader is killed by SIGPIPE.  What has been written is lost when nobody *)
(* has the FIFO open any more.                                             *)
(***************************************************************************)
EXTENDS Wire, Sequences, SequencesExt, FiniteSets, FiniteSetsExt

CONSTANTS Clients,
          Mixes,      \* functions from the clients to their requests, or to NoRequest
          Workers,
          Capacity,   \* of the queue of tasks
          Tables,     \* sequences of names the list command may show
          Failure,    \* what a handler says of its failure
          MaxTasks,   \* bound on the tasks main makes, of requests or of nothing
          NoTask

ASSUME IntakeAssumption == /\ IsFiniteSet(Clients) /\ IsFiniteSet(Workers) /\ Workers # {}
                           /\ Capacity \in Nat \ {0} /\ MaxTasks \in Nat

VARIABLES up,         \* the broker runs
          main,       \* pc and buffer of its first thread
          pipe,       \* the server's FIFO: the lines in it
          writers,    \* the clients that have it open
          tasks,      \* the requests, at the addresses main has them from malloc
          queue, taken,
          sessions,   \* the workers that serve a publisher or subscriber
          client,     \* pc, request and replies of each client
          written,    \* history: the clients in the order their requests were written
          enqueued,   \* history: the requests in the order they were queued
          crowded     \* history: the clients that found main busy with another one

vars == <<up, main, pipe, writers, tasks, queue, taken, sessions, client, written, enqueued, crowded>>

server == <<up, main, tasks, queue, taken, sessions, enqueued>>
history == <<written, enqueued, crowded>>

Addresses == 1 .. Capacity + Cardinality(Workers) + 1
TaskQueue == INSTANCE BoundedFifo WITH Consumers <- Workers, Tasks <- Addresses

NoRequest == [code |-> Zero]
Managed == {3, 5, 7, 11, 13}
Handled == {1, 2} \cup Managed

(* The request in what reader_stc returns: for code 13 a part of it. *)
Plain(r) == IF "request_lock" \in DOMAIN r THEN r.request_lock ELSE r

(* What the clients ask has one of the layouts of pipeflow.h, and each of  *)
(* them has a FIFO of its own.                                             *)
IsRequest(r) ==
  LET p == Plain(r)
  IN /\ p.code \in Handled /\ p.pipe_name # Zero
     /\ p = IF p.code = 7 THEN [code |-> 7, pipe_name |-> p.pipe_name]
            ELSE [code |-> p.code, pipe_name |-> p.pipe_name,
                  box_name |-> p.box_name, box_password |-> p.box_password]
     /\ r = IF p.code = 13 THEN [request_lock |-> p, new_password |-> r.new_password] ELSE p

ASSUME RequestsAssumption ==
  /\ \A mix \in Mixes, c \in Clients :
       mix[c] # NoRequest =>
         /\ IsRequest(mix[c])
         /\ \A d \in Clients \ {c} :
              mix[d] # NoRequest => Plain(mix[d]).pipe_name # Plain(mix[c]).pipe_name
  /\ \A s \in Tables : DOMAIN s = 1 .. Len(s) /\ Len(s) \in Nat
  /\ NoTask \notin Addresses

Init == /\ up = TRUE
        /\ main = [pc |-> "open", buffer |-> Blank]
        /\ pipe = <<>>
        /\ writers = {}
        /\ tasks = [t \in Addresses |-> NoRequest]
        /\ TaskQueue!Init
        /\ sessions = {}
        /\ \E mix \in Mixes :
             client = [c \in Clients |->
                       [pc |-> IF mix[c] = NoRequest THEN "absent" ELSE "start",
                        request |-> mix[c], inbox |-> <<>>, due |-> <<>>, got |-> <<>>]]
        /\ written = <<>>
        /\ enqueued = <<>>
        /\ crowded = {}

-----------------------------------------------------------------------------
Code(c) == Plain(client[c].request).code
Pipe(r) == IF "pipe_name" \in DOMAIN Plain(r) THEN Plain(r).pipe_name ELSE Zero

PC(c) == client[c].pc
Step(c, from, to) == /\ up /\ PC(c) = from
                     /\ client' = [client EXCEPT ![c].pc = to]

(* main is at one end of the FIFO, or waits there. *)
MainHas == main.pc # "open"

(* The broker exits, and all it had is gone. *)
End == /\ up' = FALSE
       /\ main' = [pc |-> "open", buffer |-> Blank]
       /\ tasks' = [t \in Addresses |-> NoRequest]
       /\ queue' = <<>>
       /\ taken' = [w \in Workers |-> NoTask]
       /\ sessions' = {}
Left(lines, ends) == IF ends = {} THEN <<>> ELSE lines

-----------------------------------------------------------------------------
(* The client opens the server's FIFO, and waits for main if it is not     *)
(* there; main goes on if it was waiting.                                  *)
ClientOpen(c) ==
  /\ Step(c, "start", IF MainHas THEN "opened" ELSE "opening")
  /\ writers' = writers \cup {c}
  /\ main' = [main EXCEPT !.pc = IF @ = "opening" THEN "read" ELSE @]
  /\ crowded' = IF main.pc \in {"put", "close"} \/ writers # {} \/ pipe # <<>>
                  THEN crowded \cup writers \cup {c} ELSE crowded
  /\ UNCHANGED <<up, pipe, tasks, queue, taken, sessions, written, enqueued>>

(* The whole line is written at once: it is shorter than PIPE_BUF. *)
ClientWrite(c) ==
  /\ MainHas
  /\ Step(c, "opened", "written")
  /\ pipe' = Append(pipe, writer_stc(client[c].request, Code(c)))
  /\ written' = Append(written, c)
  /\ UNCHANGED <<server, writers, crowded>>

ClientKilled(c) == /\ ~MainHas
                   /\ Step(c, "opened", "killed")
                   /\ writers' = writers \ {c}
                   /\ pipe' = Left(pipe, writers')
                   /\ UNCHANGED <<server, written, crowded>>

(* The client closes it and makes its own FIFO, which a publisher has made *)
(* before it asked.  The two matter to different threads, main and the     *)
(* worker.                                                                 *)
ClientClose(c) ==
  /\ Step(c, "written", "reply")
  /\ writers' = writers \ {c}
  /\ pipe' = IF MainHas THEN pipe ELSE Left(pipe, writers')
  /\ UNCHANGED <<server, written, crowded>>

HasFifo(c) == PC(c) \in {"reply", "attached"} \/ (Code(c) = 1 /\ PC(c) # "done")

(* The manager reads one line, or lines up to one that says it is the      *)
(* last; the end of the file gives a publisher or subscriber its leave.    *)
ClientRead(c) ==
  LET r == reader_stc(Head(client[c].inbox))
      more == "last" \in DOMAIN r /\ r.last = 0
  IN /\ up /\ PC(c) = "attached" /\ client[c].inbox # <<>>
     /\ client' = [client EXCEPT ![c].inbox = Tail(@), ![c].got = Append(@, r),
                                 ![c].pc = IF more THEN @ ELSE "done"]
     /\ UNCHANGED <<server, pipe, writers, written, crowded>>

-----------------------------------------------------------------------------
MainOpen == /\ up /\ main.pc = "open"
            /\ main' = [main EXCEPT !.pc = IF writers = {} THEN "opening" ELSE "read"]
            /\ client' = [c \in Clients |-> IF PC(c) = "opening"
                                              THEN [client[c] EXCEPT !.pc = "opened"]
                                              ELSE client[c]]
            /\ UNCHANGED <<up, pipe, writers, tasks, queue, taken, sessions, history>>

(* Mutant of MainRead: the end of the file is met before a line comes. *)
MainReadEager ==
  /\ up /\ main.pc = "read"
  /\ main' = [pc |-> "put", buffer |-> IF pipe = <<>> THEN main.buffer ELSE Head(pipe)]
  /\ pipe' = IF pipe = <<>> THEN pipe ELSE Tail(pipe)
  /\ UNCHANGED <<up, writers, tasks, queue, taken, sessions, client, history>>

Present == {c \in Clients : PC(c) # "absent"}
Known == {k \in DOMAIN enqueued : Plain(enqueued[k]).code \in Handled}
Empty == Len(enqueued) - Cardinality(Known)

(* read: a line, or the end of the file when no client has the FIFO open.  *)
(* That leaves the buffer as it was.                                       *)
MainRead ==
  /\ up /\ main.pc = "read"
  /\ pipe # <<>> \/ (writers = {} /\ Empty < MaxTasks - Cardinality(Present))
  /\ main' = [pc |-> "put", buffer |-> IF pipe = <<>> THEN main.buffer ELSE Head(pipe)]
  /\ pipe' = IF pipe = <<>> THEN pipe ELSE Tail(pipe)
  /\ UNCHANGED <<up, writers, tasks, queue, taken, sessions, client, history>>

(* reader_stc, malloc and pcq_enqueue. *)
MainPut ==
  LET t == Min(Addresses \ (TaskQueue!Waiting \cup TaskQueue!Running))
      r == reader_stc(main.buffer)
  IN /\ up /\ main.pc = "put"
     /\ TaskQueue!Put(t)
     /\ tasks' = [tasks EXCEPT ![t] = r]
     /\ enqueued' = Append(enqueued, r)
     /\ main' = [main EXCEPT !.pc = "close"]
     /\ UNCHANGED <<up, pipe, writers, sessions, client, written, crowded>>

(* Mutant of MainClose: the buffer is not cleared. *)
MainCloseDirty == /\ up /\ main.pc = "close"
                  /\ main' = [main EXCEPT !.pc = "open"]
                  /\ pipe' = Left(pipe, writers)
                  /\ UNCHANGED <<up, writers, tasks, queue, taken, sessions, client, history>>

MainClose == /\ up /\ main.pc = "close"
             /\ main' = [pc |-> "open", buffer |-> Blank]
             /\ pipe' = Left(pipe, writers)
             /\ UNCHANGED <<up, writers, tasks, queue, taken, sessions, client, history>>

-----------------------------------------------------------------------------
(* Mutant of Replies: no line of a list is marked as the last. *)
RepliesUnmarked(r) ==
  IF Plain(r).code = 7
    THEN {<<[code |-> 8, last |-> 0, box_name |-> Zero, box_size |-> Zero,
             n_pubs |-> Zero, n_subs |-> Zero, box_password |-> Zero]>>}
    ELSE {<<[code |-> Plain(r).code + 1, return_code |-> 0, error_message |-> Zero]>>}

(* What the handlers may answer to a request. *)
Replies(r) ==
  LET code == Plain(r).code
      box(last, b) == [code |-> 8, last |-> last, box_name |-> b, box_size |-> Zero,
                       n_pubs |-> Zero, n_subs |-> Zero, box_password |-> Zero]
  IN CASE code \in {3, 5, 11, 13} ->
            {<<[code |-> code + 1, return_code |-> said[1], error_message |-> said[2]]>> :
               said \in {<<0, Zero>>, <<-1, Failure>>}}
       [] code = 7 -> {IF s = <<>> THEN <<box(1, Zero)>>
                       ELSE [k \in DOMAIN s |-> box(IF k = Len(s) THEN 1 ELSE 0, s[k])] : s \in Tables}

Line(r) == writer_stc(r, r.code)
TaskOf(w) == tasks[taken[w]]
Handles(w, codes) == /\ up /\ taken[w] # NoTask /\ w \notin sessions
                     /\ Plain(TaskOf(w)).code \in codes

(* Who has made the FIFO that the request names. *)
Asker(r) == {c \in Clients : HasFifo(c) /\ Pipe(client[c].request) = Pipe(r)}

(* The handler returns, and the task is freed. *)
Return(w) == /\ TaskQueue!Done(w)
             /\ tasks' = [tasks EXCEPT ![taken[w]] = NoRequest]

Take(w) == /\ up
           /\ TaskQueue!Get(w)
           /\ UNCHANGED <<up, main, pipe, writers, tasks, sessions, client, history>>

(* A task whose code main does not know has no function to call. *)
Crash(w) == /\ up /\ taken[w] # NoTask /\ Plain(TaskOf(w)).code \notin Handled
            /\ End
            /\ UNCHANGED <<pipe, writers, client, history>>

(* The worker opens the client's FIFO when the client does, and writes the *)
(* lines, for which there is room.                                         *)
Answer(w) ==
  /\ Handles(w, Managed)
  /\ \E c \in Asker(TaskOf(w)), lines \in Replies(TaskOf(w)) :
       /\ PC(c) = "reply"
       /\ client' = [client EXCEPT ![c].pc = "attached", ![c].due = lines,
                                   ![c].inbox = [k \in DOMAIN lines |-> Line(lines[k])]]
  /\ Return(w)
  /\ UNCHANGED <<up, main, pipe, writers, sessions, history>>

(* There is none: my_open ends the broker, open only the handler.          *)
(* process_manager_remove does the one when the password is wrong, and the *)
(* other when it is not.                                                   *)
Fatal(w) == /\ Handles(w, {1, 2, 3, 5}) /\ Asker(TaskOf(w)) = {}
            /\ End
            /\ UNCHANGED <<pipe, writers, client, history>>

Unanswered(w) == /\ Handles(w, {5, 7, 11, 13}) /\ Asker(TaskOf(w)) = {}
                 /\ Return(w)
                 /\ UNCHANGED <<up, main, pipe, writers, sessions, client, history>>

(* A publisher or subscriber is turned away, or a session begins that      *)
(* lasts for as long as the client wants.                                  *)
Refuse(w) == /\ Handles(w, {1, 2})
             /\ \E c \in Asker(TaskOf(w)) :
                  PC(c) = "reply" /\ client' = [client EXCEPT ![c].pc = "done"]
             /\ Return(w)
             /\ UNCHANGED <<up, main, pipe, writers, sessions, history>>

Admit(w) == /\ Handles(w, {1, 2})
            /\ \E c \in Asker(TaskOf(w)) :
                 PC(c) = "reply" /\ client' = [client EXCEPT ![c].pc = "attached"]
            /\ sessions' = sessions \cup {w}
            /\ UNCHANGED <<up, main, pipe, writers, tasks, queue, taken, history>>

(* Mutant of Leave: the worker returns and believes to be in a session. *)
LeaveStays(w) == /\ up /\ w \in sessions
                 /\ \E c \in Asker(TaskOf(w)) : client' = [client EXCEPT ![c].pc = "done"]
                 /\ Return(w)
                 /\ UNCHANGED <<up, main, pipe, writers, sessions, history>>

Leave(w) == /\ up /\ w \in sessions
            /\ \E c \in Asker(TaskOf(w)) : client' = [client EXCEPT ![c].pc = "done"]
            /\ sessions' = sessions \ {w}
            /\ Return(w)
            /\ UNCHANGED <<up, main, pipe, writers, history>>

(* SIGINT, at any moment. *)
end_program_ctrlC == up /\ End /\ UNCHANGED <<pipe, writers, client, history>>

-----------------------------------------------------------------------------
ClientStep(c) == ClientWrite(c) \/ ClientKilled(c) \/ ClientClose(c) \/ ClientRead(c)
MainStep == MainOpen \/ MainRead \/ MainClose
Handle(w) == Crash(w) \/ Answer(w) \/ Fatal(w) \/ Unanswered(w) \/ Refuse(w) \/ Admit(w)

Next == \/ \E c \in Clients : ClientOpen(c) \/ ClientStep(c)
        \/ MainStep \/ MainPut
        \/ \E w \in Workers : Take(w) \/ Handle(w) \/ Leave(w)
        \/ end_program_ctrlC

(* Threads and processes run; only when a client starts, and how long it   *)
(* stays, is its own affair.  The queue may lose a wakeup, which another   *)
(* worker makes good when it comes back: it serves when all do.            *)
Fairness == /\ WF_vars(MainStep)
            /\ WF_vars(MainPut /\ sessions = {})
            /\ WF_vars((\E w \in Workers : Take(w)) /\ sessions = {})
            /\ \A c \in Clients : WF_vars(ClientStep(c))
            /\ \A w \in Workers : WF_vars(Handle(w))

Spec == Init /\ [][Next]_vars /\ Fairness

-----------------------------------------------------------------------------
TypeOK == /\ main.pc \in {"open", "opening", "read", "put", "close"}
          /\ writers = {c \in Clients : PC(c) \in {"opening", "opened", "written"}}
          /\ main.pc = "opening" => writers = {} /\ pipe = <<>>
          /\ \A w \in sessions : taken[w] # NoTask /\ Plain(TaskOf(w)).code \in {1, 2}
          /\ \A t \in Addresses : tasks[t] # NoRequest <=> t \in TaskQueue!Waiting \cup TaskQueue!Running

(* The requests that are queued are requests that clients have written, as *)
(* they were written, in that order, and none of them twice: at[k] is the  *)
(* place where the k-th was written.  A read that meets the end of the     *)
(* file queues no client's request again.                                  *)
TakenOnce ==
  \E at \in [Known -> DOMAIN written] :
    /\ \A k \in Known : enqueued[k] = client[written[at[k]]].request
    /\ \A j, k \in Known : j < k => at[j] < at[k]

InPipe(c) == \E k \in DOMAIN pipe : pipe[k] = writer_stc(client[c].request, Code(c))
InBuffer(c) == main.pc = "put" /\ main.buffer = writer_stc(client[c].request, Code(c))
Enqueued(c) == \E k \in DOMAIN enqueued : enqueued[k] = client[c].request
Lost(c) == /\ \E k \in DOMAIN written : written[k] = c
           /\ ~InPipe(c) /\ ~InBuffer(c) /\ ~Enqueued(c)

(* A client that finds the FIFO idle is heard: a request is lost, or its   *)
(* client killed, only if another client was at the FIFO meanwhile.        *)
LostOnlyCrowded == up => \A c \in Clients : Lost(c) \/ PC(c) = "killed" => c \in crowded

(* A manager shows what its handler has answered, all of it and no more.   *)
AnswersMatch == \A c \in Clients : PC(c) = "done" => client[c].got = client[c].due

InHand(c) == \/ \E t \in TaskQueue!Waiting : tasks[t] = client[c].request
             \/ \E w \in Workers : taken[w] # NoTask /\ TaskOf(w) = client[c].request
Unheard(c) == Enqueued(c) /\ ~InHand(c) /\ PC(c) \in {"written", "reply"}

(* If sessions end, a request that was written is answered, unless it was  *)
(* lost, the worker came before the client had made its FIFO, or the       *)
(* broker ended.                                                           *)
AnsweredInTheEnd ==
  <>[](sessions = {}) =>
    \A c \in Clients : PC(c) = "written" ~>
      \/ PC(c) = "done" \/ (PC(c) = "attached" /\ Code(c) \notin Managed)
      \/ Lost(c) \/ Unheard(c) \/ ~up
=============================================================================
