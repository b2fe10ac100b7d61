---------------------------- MODULE IntakeProofs ----------------------------
(***************************************************************************)
(* Proofs about Intake for any number of clients and workers, any queue    *)
(* and any requests.                                                       *)
(***************************************************************************)
EXTENDS Intake, WireProofs, SequenceTheorems, FiniteSetTheorems

-----------------------------------------------------------------------------
(***************************************************************************)
(* The invariant.                                                          *)
(***************************************************************************)
Asked == {client[c].request : c \in {d \in Clients : client[d].request # NoRequest}}
LineOf(r) == writer_stc(r, Plain(r).code)
Nothing == reader_stc(Blank)

(* Everything a handler may send. *)
Answers(r) == UNION {{lines[k] : k \in DOMAIN lines} : lines \in Replies(r)}
Mixed == UNION {{mix[c] : c \in Clients} : mix \in Mixes}
Sendable == UNION {Answers(r) : r \in {q \in Mixed : Plain(q).code \in Managed}}

Before == {"absent", "start", "opening", "opened", "written", "reply", "killed"}
ClientRecord == [pc : Before \cup {"attached", "done"},
                 request : Mixed,
                 inbox : Seq({Line(r) : r \in Sendable}),
                 due : Seq(Sendable), got : Seq(Sendable)]

(* The clients' requests do not change, and no two of them name one FIFO. *)
ClientInv ==
  /\ client \in [Clients -> ClientRecord]
  /\ \A c \in Clients : client[c].request # NoRequest =>
       /\ IsRequest(client[c].request)
       /\ \A d \in Clients \ {c} :
            client[d].request # NoRequest => Pipe(client[d].request) # Pipe(client[c].request)
  /\ \A c \in Clients : client[c].request = NoRequest <=> PC(c) = "absent"

(* What is in the FIFO and in main's buffer are lines of requests. *)
LineInv ==
  /\ up \in BOOLEAN
  /\ main \in [pc : {"open", "opening", "read", "put", "close"},
               buffer : {Blank} \cup {LineOf(r) : r \in Asked}]
  /\ pipe \in Seq({LineOf(r) : r \in Asked})
  /\ main.pc \notin {"put", "close"} => main.buffer = Blank
  /\ writers = {c \in Clients : PC(c) \in {"opening", "opened", "written"}}
  /\ up /\ main.pc \in {"open", "opening"} /\ writers = {} => pipe = <<>>
  /\ main.pc = "opening" => up /\ writers = {}

(* A task is in one place. *)
PlaceInv ==
  /\ queue \in Seq(Addresses) /\ Len(queue) <= Capacity
  /\ taken \in [Workers -> Addresses \cup {NoTask}]
  /\ \A i, j \in DOMAIN queue : queue[i] = queue[j] => i = j
  /\ \A w \in Workers : taken[w] # NoTask =>
       /\ \A i \in DOMAIN queue : queue[i] # taken[w]
       /\ \A v \in Workers : taken[v] = taken[w] => v = w

(* It holds a request, or nothing if main read the end of the file. *)
TaskInv ==
  /\ tasks \in [Addresses -> Asked \cup {NoRequest, Nothing}]
  /\ \A t \in Addresses : tasks[t] # NoRequest <=> t \in TaskQueue!Waiting \cup TaskQueue!Running
  /\ enqueued \in Seq(Asked \cup {Nothing})

(* A session is with a client of its own, which is attached. *)
SessionInv ==
  /\ sessions \subseteq Workers
  /\ \A w \in sessions :
       /\ taken[w] # NoTask /\ Plain(TaskOf(w)).code \in {1, 2}
       /\ \E c \in Clients : PC(c) = "attached" /\ TaskOf(w) = client[c].request
       /\ \A v \in sessions \ {w} : TaskOf(v) # TaskOf(w)

(* What a manager has got and what is in its FIFO make what is due to it, *)
(* the last line of which, and no other, says that it is the last.        *)
Marked(r) == "last" \in DOMAIN r /\ r.last = 0
Replied(c) ==
  LET due == client[c].due
      got == client[c].got
      inbox == client[c].inbox
  IN /\ PC(c) \in Before \/ Code(c) \in {1, 2} => due = <<>> /\ got = <<>> /\ inbox = <<>>
     /\ \A k \in DOMAIN due : Marked(due[k]) <=> k < Len(due)
     /\ PC(c) = "attached" /\ Code(c) \in Managed =>
          /\ Len(got) + Len(inbox) = Len(due) /\ inbox # <<>>
          /\ \A k \in DOMAIN got : got[k] = due[k]
          /\ \A k \in DOMAIN inbox : inbox[k] = Line(due[Len(got) + k])
     /\ PC(c) = "done" => got = due
ReplyInv == \A c \in Clients : Replied(c)

(* The FIFO is the end of what was written; the requests queued, and the   *)
(* one in main's buffer, were written before.                              *)
Order(at) ==
  /\ \A k \in Known : enqueued[k] = client[written[at[k]]].request
  /\ \A j, k \in Known : j < k => at[j] < at[k]
  /\ \A k \in Known : at[k] <= Len(written) - Len(pipe)
  /\ main.pc = "put" /\ main.buffer # Blank =>
       \E b \in 1 .. Len(written) - Len(pipe) :
         /\ main.buffer = LineOf(client[written[b]].request)
         /\ \A k \in Known : at[k] < b

OrderInv ==
  /\ written \in Seq(Clients) /\ Len(pipe) <= Len(written)
  /\ \A k \in DOMAIN written : PC(written[k]) \notin {"absent", "start", "opening", "opened", "killed"}
  /\ \A j, k \in DOMAIN written : written[j] = written[k] => j = k
  /\ \A k \in DOMAIN pipe :
       pipe[k] = LineOf(client[written[Len(written) - Len(pipe) + k]].request)
  /\ \E at \in [Known -> DOMAIN written] : Order(at)

(* A client that nobody has met at the FIFO is alone there, or has written *)
(* its line before anybody else.                                           *)
Alone(c) ==
  /\ PC(c) \in {"opening", "opened"} => writers = {c} /\ pipe = <<>>
  /\ PC(c) = "opening" => main.pc = "open"
  /\ PC(c) = "opened" => main.pc = "read"
  /\ PC(c) # "absent" /\ InPipe(c) => main.pc = "read" /\ Head(pipe) = LineOf(client[c].request)
  /\ ~Lost(c) /\ PC(c) # "killed"
AloneInv == up => \A c \in Clients \ crowded : Alone(c)

IntakeInv == /\ ClientInv /\ LineInv /\ PlaceInv /\ TaskInv /\ SessionInv
             /\ ReplyInv /\ OrderInv /\ AloneInv

-----------------------------------------------------------------------------
(***************************************************************************)
(* Requests and answers, and their lines.                                  *)
(***************************************************************************)

(* A request is read as it was written, and its line is not blank. *)
LEMMA RequestReads ==
  ASSUME NEW r, IsRequest(r)
  PROVE  /\ reader_stc(LineOf(r)) = r
         /\ Plain(r).code \in Handled /\ Pipe(r) = Plain(r).pipe_name /\ Pipe(r) # Zero
<1> DEFINE p == Plain(r)
           V == {p.pipe_name, p.box_name, p.box_password, r.new_password}
<1>1. p.code \in Handled /\ p.code \in Nat /\ p.pipe_name # Zero
  BY DEF IsRequest, Handled, Managed
<1>2. p = IF p.code = 7 THEN [code |-> 7, pipe_name |-> p.pipe_name]
          ELSE [code |-> p.code, pipe_name |-> p.pipe_name,
                box_name |-> p.box_name, box_password |-> p.box_password]
  BY DEF IsRequest
<1>3. r = IF p.code = 13 THEN [request_lock |-> p, new_password |-> r.new_password] ELSE p
  BY DEF IsRequest
<1>4. Pipe(r) = p.pipe_name
  BY <1>2 DEF Pipe
<1>5. r \in Messages(p.code, V)
  <2> HIDE DEF p
  <2>1. CASE p.code = 7
    BY <1>2, <1>3, <2>1 DEF Messages
  <2>2. CASE p.code = 13
    <3>1. p \in RequestMessages(13, V)
      BY <1>2, <2>2 DEF RequestMessages
    <3> QED
      BY <1>3, <2>2, <3>1 DEF Messages
  <2>3. CASE p.code \in {1, 2, 3, 5, 11}
    BY <1>2, <1>3, <2>3 DEF Messages, RequestMessages
  <2> QED
    BY <1>1, <2>1, <2>2, <2>3 DEF Handled, Managed
<1>6. reader_stc(writer_stc(r, p.code)) = r
  <2> HIDE DEF p, V
  <2> QED
    BY <1>1, <1>5, RoundTrip
<1> QED
  BY <1>1, <1>4, <1>6 DEF LineOf

(* What main takes from a buffer that no client has written to. *)
LEMMA NothingIs == /\ Plain(Nothing).code = Zero /\ Zero \notin Handled
                   /\ Nothing # NoRequest
                   /\ Plain(NoRequest).code = Zero /\ Pipe(NoRequest) = Zero
<1>1. CodeOf(Blank) = Zero
  <2>1. 0 \in 0 .. MAX_LINE - 1
    BY WireAssumption
  <2>2. \A k \in 0 .. 1 - 1 : Blank[0 + k] = <<>>
    BY <2>1 DEF Blank
  <2> QED
    BY <2>2 DEF CodeOf, Get
<1>2. Nothing = reader_stc_request(Zero, Blank)
  BY <1>1 DEF Nothing, reader_stc, Zero
<1>3. DOMAIN Nothing = {"code", "pipe_name", "box_name", "box_password"} /\ Nothing.code = Zero
  BY <1>2 DEF reader_stc_request
<1>4. DOMAIN NoRequest = {"code"} /\ NoRequest.code = Zero
  BY DEF NoRequest
<1>5. "request_lock" \notin DOMAIN Nothing /\ "request_lock" \notin DOMAIN NoRequest
      /\ DOMAIN Nothing # DOMAIN NoRequest
  BY <1>3, <1>4
<1> QED
  BY <1>3, <1>4, <1>5 DEF Plain, Pipe, Handled, Managed, Zero

(* The length of a function on the first numbers. *)
LEMMA LengthOf == \A n \in Nat : \A f : f = [k \in 1 .. n |-> f[k]] => Len(f) = n
<1> SUFFICES ASSUME NEW n \in Nat, NEW f, f = [k \in 1 .. n |-> f[k]] PROVE Len(f) = n
  OBVIOUS
<1> DEFINE S == {f[k] : k \in 1 .. n}
<1>1. f \in Seq(S)
  <2>1. f \in [1 .. n -> S]
    OBVIOUS
  <2> HIDE DEF S
  <2> QED
    BY <2>1
<1> HIDE DEF S
<1>2. DOMAIN f = 1 .. Len(f) /\ Len(f) \in Nat /\ DOMAIN f = 1 .. n
  BY <1>1, LenProperties
<1> QED
  BY <1>2

(* A line of an answer is read as it was written, and the lines of one     *)
(* answer are marked as they should.                                       *)
LEMMA RepliesRead ==
  ASSUME NEW r, Plain(r).code \in Managed, NEW lines \in Replies(r)
  PROVE  /\ DOMAIN lines = 1 .. Len(lines) /\ Len(lines) \in Nat \ {0}
         /\ lines = [k \in 1 .. Len(lines) |-> lines[k]]
         /\ \A k \in DOMAIN lines : /\ reader_stc(Line(lines[k])) = lines[k]
                                    /\ Marked(lines[k]) <=> k < Len(lines)
<1> DEFINE code == Plain(r).code
           box(last, b) == [code |-> 8, last |-> last, box_name |-> b, box_size |-> Zero,
                            n_pubs |-> Zero, n_subs |-> Zero, box_password |-> Zero]
<1>1. CASE code \in {3, 5, 11, 13}
  <2>1. PICK ret, text : lines = <<[code |-> code + 1, return_code |-> ret, error_message |-> text]>>
    BY <1>1 DEF Replies
  <2> DEFINE m == [code |-> code + 1, return_code |-> ret, error_message |-> text]
             V == {ret, text}
  <2>2. code + 1 \in {4, 6, 12, 14}
    BY <1>1
  <2>3. m \in Messages(code + 1, V)
    <3>1. m \in [code : {code + 1}, return_code : V, error_message : V]
      OBVIOUS
    <3> HIDE DEF m, V
    <3>2. ASSUME NEW n, n \in {4, 6, 12, 14}, m \in [code : {n}, return_code : V, error_message : V]
          PROVE  m \in Messages(n, V)
      BY <3>2 DEF Messages
    <3> QED
      BY <2>2, <3>1, <3>2
  <2>4. reader_stc(Line(m)) = m /\ ~Marked(m)
    <3>1. m.code = code + 1 /\ "last" \notin DOMAIN m
      OBVIOUS
    <3> HIDE DEF m, V
    <3> QED
      BY <2>2, <2>3, <3>1, RoundTrip DEF Line, Marked
  <2>5. lines = <<m>> /\ DOMAIN lines = 1 .. 1 /\ Len(lines) = 1 /\ lines[1] = m
        /\ lines = [k \in 1 .. 1 |-> lines[k]]
    BY <2>1
  <2> HIDE DEF m
  <2> QED
    BY <2>4, <2>5
<1>2. CASE code = 7
  <2>1. ASSUME NEW last, NEW b
        PROVE  reader_stc(Line(box(last, b))) = box(last, b)
    <3> DEFINE V == {last, b, Zero}
               m == box(last, b)
    <3>1. m \in Messages(8, V) /\ m.code = 8
      BY DEF Messages
    <3> HIDE DEF m, V
    <3>2. reader_stc(writer_stc(m, 8)) = m
      BY <3>1, RoundTrip
    <3> QED
      BY <3>1, <3>2 DEF Line, m
  <2>2. \A last, b : Marked(box(last, b)) <=> last = 0
    BY DEF Marked
  <2>3. PICK s \in Tables :
          lines = IF s = <<>> THEN <<box(1, Zero)>>
                  ELSE [k \in DOMAIN s |-> box(IF k = Len(s) THEN 1 ELSE 0, s[k])]
    BY <1>2 DEF Replies
  <2>4. DOMAIN s = 1 .. Len(s) /\ Len(s) \in Nat
    BY RequestsAssumption
  <2> HIDE DEF box
  <2>5. CASE s = <<>>
    <3>1. lines = <<box(1, Zero)>>
      BY <2>3, <2>5
    <3>2. DOMAIN lines = 1 .. 1 /\ Len(lines) = 1 /\ lines[1] = box(1, Zero)
      BY <3>1
    <3>3. ~Marked(lines[1]) /\ reader_stc(Line(lines[1])) = lines[1]
      BY <2>1, <2>2, <3>2
    <3>4. lines = [k \in 1 .. 1 |-> lines[k]]
      BY <3>1
    <3> QED
      BY <3>2, <3>3, <3>4
  <2>6. CASE s # <<>>
    <3>1. lines = [k \in 1 .. Len(s) |-> box(IF k = Len(s) THEN 1 ELSE 0, s[k])]
      BY <2>3, <2>4, <2>6
    <3>2. Len(s) # 0
      BY <2>4, <2>6
    <3>3. DOMAIN lines = 1 .. Len(s) /\ Len(lines) = Len(s)
      BY <2>4, <3>1, LengthOf
    <3>4. ASSUME NEW k \in 1 .. Len(s)
          PROVE  reader_stc(Line(lines[k])) = lines[k] /\ (Marked(lines[k]) <=> k < Len(s))
      <4>1. lines[k] = box(IF k = Len(s) THEN 1 ELSE 0, s[k])
        BY <3>1
      <4>2. Marked(lines[k]) <=> k # Len(s)
        BY <2>2, <4>1
      <4>3. k # Len(s) <=> k < Len(s)
        <5>1. \A n \in Nat : \A x \in 1 .. n : (x # n) <=> (x < n)
          OBVIOUS
        <5> QED
          BY <2>4, <5>1
      <4>4. reader_stc(Line(lines[k])) = lines[k]
        BY <2>1, <4>1
      <4> QED
        BY <4>2, <4>3, <4>4
    <3>5. lines = [k \in 1 .. Len(s) |-> lines[k]]
      BY <3>1
    <3> QED
      BY <2>4, <3>2, <3>3, <3>4, <3>5
  <2> QED
    BY <2>5, <2>6
<1> QED
  BY <1>1, <1>2 DEF Managed

(* A line a handler sends is read as it was sent.                           *)
LEMMA SentReads == \A r \in Sendable : reader_stc(Line(r)) = r
<1> SUFFICES ASSUME NEW q \in Mixed, Plain(q).code \in Managed, NEW r \in Answers(q)
             PROVE  reader_stc(Line(r)) = r
  BY DEF Sendable
<1>1. PICK lines \in Replies(q) : \E k \in DOMAIN lines : r = lines[k]
  BY DEF Answers
<1> QED
  BY <1>1, RepliesRead

-----------------------------------------------------------------------------
(***************************************************************************)
(* The clients.                                                            *)
(***************************************************************************)

(* A step changes neither what a client asks nor whether there is one.     *)
Kept == /\ client' \in [Clients -> ClientRecord]
        /\ \A c \in Clients : /\ client'[c].request = client[c].request
                              /\ client'[c].pc = "absent" <=> client[c].pc = "absent"

(* A client that goes on at the FIFO asks what it asked.                    *)
LEMMA StepKept ==
  ASSUME client \in [Clients -> ClientRecord], NEW c \in Clients, NEW from, NEW to,
         Step(c, from, to), from # "absent", to \in (Before \cup {"attached", "done"}) \ {"absent"}
  PROVE  Kept
BY DEF Step, Kept, ClientRecord, PC

(* So does one that a worker turns away, admits or leaves.                  *)
LEMMA PCKept ==
  ASSUME client \in [Clients -> ClientRecord], NEW c \in Clients, PC(c) # "absent",
         NEW to \in {"attached", "done"}, client' = [client EXCEPT ![c].pc = to]
  PROVE  Kept
BY DEF Kept, ClientRecord, PC

(* What the handlers answer can be sent. *)
LEMMA AnswerKept ==
  ASSUME client \in [Clients -> ClientRecord], NEW c \in Clients, PC(c) # "absent",
         NEW q \in Mixed, Plain(q).code \in Managed, NEW lines \in Replies(q),
         client' = [client EXCEPT ![c].pc = "attached", ![c].due = lines,
                                  ![c].inbox = [k \in DOMAIN lines |-> Line(lines[k])]]
  PROVE  Kept
<1>1. \A k \in DOMAIN lines : lines[k] \in Sendable
  BY DEF Sendable, Answers
<1>2. DOMAIN lines = 1 .. Len(lines) /\ Len(lines) \in Nat /\ lines = [k \in 1 .. Len(lines) |-> lines[k]]
  BY RepliesRead
<1>3. lines \in Seq(Sendable)
  <2>1. lines \in [1 .. Len(lines) -> Sendable]
    BY <1>1, <1>2
  <2> QED
    BY <1>2, <2>1
<1>4. [k \in DOMAIN lines |-> Line(lines[k])] \in Seq({Line(r) : r \in Sendable})
  <2>1. [k \in 1 .. Len(lines) |-> Line(lines[k])]
          \in [1 .. Len(lines) -> {Line(r) : r \in Sendable}]
    BY <1>1, <1>2
  <2> QED
    BY <1>2, <2>1
<1> DEFINE inbox == [k \in DOMAIN lines |-> Line(lines[k])]
<1> HIDE DEF inbox
<1>5. /\ client'[c] = [client[c] EXCEPT !.pc = "attached", !.due = lines, !.inbox = inbox]
      /\ DOMAIN client' = Clients /\ client' = [d \in Clients |-> client'[d]]
      /\ \A d \in Clients \ {c} : client'[d] = client[d]
  BY DEF inbox
<1>6. client[c] \in ClientRecord
  OBVIOUS
<1>7. /\ client'[c] \in ClientRecord /\ client'[c].request = client[c].request
      /\ client'[c].pc = "attached"
  BY <1>3, <1>4, <1>5, <1>6 DEF ClientRecord, inbox
<1>8. client' \in [Clients -> ClientRecord]
  <2>1. \A d \in Clients : client'[d] \in ClientRecord
    BY <1>5, <1>7
  <2> QED
    BY <1>5, <2>1
<1> QED
  BY <1>5, <1>7, <1>8 DEF Kept, PC

(* And one that reads a line of its answer.                                 *)
LEMMA ReadKept ==
  ASSUME client \in [Clients -> ClientRecord], NEW c \in Clients, ClientRead(c)
  PROVE  Kept
<1> DEFINE r == reader_stc(Head(client[c].inbox))
           L == {Line(s) : s \in Sendable}
<1>1. /\ client[c].inbox \in Seq(L) /\ client[c].got \in Seq(Sendable)
      /\ client[c].inbox # <<>> /\ PC(c) = "attached"
  BY DEF ClientRead, ClientRecord
<1>2. Head(client[c].inbox) \in L /\ Tail(client[c].inbox) \in Seq(L)
  BY <1>1, HeadTailProperties
<1>3. r \in Sendable
  BY <1>2, SentReads
<1>4. Append(client[c].got, r) \in Seq(Sendable)
  BY <1>1, <1>3, AppendProperties
<1> HIDE DEF L
<1>5. PICK pc \in {"attached", "done"} :
        client' = [client EXCEPT ![c].inbox = Tail(@), ![c].got = Append(@, r), ![c].pc = pc]
  BY <1>1 DEF ClientRead, PC
<1> HIDE DEF r
<1> QED
  BY <1>1, <1>2, <1>4, <1>5 DEF Kept, ClientRecord, PC, L

(* Who has a FIFO is there to ask. *)
LEMMA FifoPresent ==
  ASSUME ClientInv, NEW c \in Clients, HasFifo(c)
  PROVE  PC(c) # "absent" /\ client[c].request # NoRequest
<1>1. CASE PC(c) \in {"reply", "attached"}
  BY <1>1 DEF ClientInv
<1>2. CASE Code(c) = 1
  BY <1>2, NothingIs DEF ClientInv, Code, Handled
<1> QED
  BY <1>1, <1>2 DEF HasFifo

(* A worker that has a request to handle has one that a client asks, and   *)
(* whoever has made the FIFO it names is that client.                      *)
LEMMA TaskAsked ==
  ASSUME ClientInv, PlaceInv, TaskInv, NEW w \in Workers, taken[w] # NoTask,
         Plain(TaskOf(w)).code \in Handled
  PROVE  /\ TaskOf(w) \in Asked /\ TaskOf(w) \in Mixed
         /\ \A c \in Asker(TaskOf(w)) : c \in Clients /\ HasFifo(c) /\ TaskOf(w) = client[c].request
<1>1. taken[w] \in Addresses
  BY DEF PlaceInv
<1>2. TaskOf(w) \in Asked
  BY <1>1, NothingIs DEF TaskOf, TaskInv
<1>3. PICK d \in Clients : TaskOf(w) = client[d].request /\ client[d].request # NoRequest
  BY <1>2 DEF Asked
<1>4. TaskOf(w) \in Mixed
  BY <1>3 DEF ClientInv, ClientRecord
<1>5. ASSUME NEW c \in Asker(TaskOf(w))
      PROVE  c \in Clients /\ HasFifo(c) /\ TaskOf(w) = client[c].request
  <2>1. c \in Clients /\ HasFifo(c) /\ Pipe(client[c].request) = Pipe(client[d].request)
    BY <1>3 DEF Asker
  <2>2. client[c].request # NoRequest
    BY <2>1, FifoPresent
  <2> QED
    BY <1>3, <2>1, <2>2 DEF ClientInv
<1> QED
  BY <1>2, <1>4, <1>5

(* The same clients are kept. *)
LEMMA SameKept == ASSUME ClientInv, UNCHANGED client PROVE Kept
BY DEF ClientInv, Kept

(* No step changes what a client asks.                                      *)
LEMMA NextKept ==
  ASSUME ClientInv, PlaceInv, TaskInv, SessionInv, Next
  PROVE  Kept
<1>1. client \in [Clients -> ClientRecord]
  BY DEF ClientInv
<1>2. ASSUME NEW c \in Clients, ClientOpen(c) PROVE Kept
  BY <1>1, <1>2, StepKept DEF ClientOpen, Before
<1>3. ASSUME NEW c \in Clients, ClientStep(c) PROVE Kept
  <2>1. CASE ClientWrite(c)
    BY <1>1, <2>1, StepKept DEF ClientWrite, Before
  <2>2. CASE ClientKilled(c)
    BY <1>1, <2>2, StepKept DEF ClientKilled, Before
  <2>3. CASE ClientClose(c)
    BY <1>1, <2>3, StepKept DEF ClientClose, Before
  <2>4. CASE ClientRead(c)
    BY <1>1, <2>4, ReadKept
  <2> QED
    BY <1>3, <2>1, <2>2, <2>3, <2>4 DEF ClientStep
<1>4. CASE MainOpen
  <2>1. ASSUME NEW c \in Clients
        PROVE  /\ client'[c] \in ClientRecord
               /\ client'[c].request = client[c].request
               /\ client'[c].pc = "absent" <=> client[c].pc = "absent"
    <3>1. client[c] \in ClientRecord
      BY <1>1
    <3>2. client'[c] = IF PC(c) = "opening" THEN [client[c] EXCEPT !.pc = "opened"] ELSE client[c]
      BY <1>4 DEF MainOpen
    <3> QED
      BY <3>1, <3>2 DEF ClientRecord, Before, PC
  <2>2. client' \in [Clients -> ClientRecord]
    BY <1>4, <2>1 DEF MainOpen
  <2> QED
    BY <2>1, <2>2 DEF Kept
<1>5. CASE MainRead \/ MainClose \/ MainPut \/ end_program_ctrlC
  BY <1>5, SameKept DEF MainRead, MainClose, MainPut, end_program_ctrlC
<1>6. ASSUME NEW w \in Workers, Take(w) \/ Handle(w) \/ Leave(w) PROVE Kept
  <2>1. CASE Take(w) \/ Crash(w) \/ Fatal(w) \/ Unanswered(w)
    BY <2>1, SameKept DEF Take, Crash, Fatal, Unanswered
  <2>2. CASE Answer(w)
    <3>1. taken[w] # NoTask /\ Plain(TaskOf(w)).code \in Managed
      BY <2>2 DEF Answer, Handles
    <3>2. PICK c \in Asker(TaskOf(w)), lines \in Replies(TaskOf(w)) :
            client' = [client EXCEPT ![c].pc = "attached", ![c].due = lines,
                                     ![c].inbox = [k \in DOMAIN lines |-> Line(lines[k])]]
      BY <2>2 DEF Answer
    <3>3. TaskOf(w) \in Mixed /\ c \in Clients /\ HasFifo(c)
      BY <3>1, TaskAsked DEF Handled
    <3> QED
      BY <1>1, <3>1, <3>2, <3>3, FifoPresent, AnswerKept
  <2>3. CASE Refuse(w) \/ Admit(w) \/ Leave(w)
    <3>1. PICK c \in Asker(TaskOf(w)), to \in {"attached", "done"} :
            client' = [client EXCEPT ![c].pc = to]
      BY <2>3 DEF Refuse, Admit, Leave
    <3>2. c \in Clients /\ HasFifo(c)
      BY DEF Asker
    <3> QED
      BY <1>1, <3>1, <3>2, FifoPresent, PCKept
  <2> QED
    BY <1>6, <2>1, <2>2, <2>3 DEF Handle
<1> QED
  BY <1>2, <1>3, <1>4, <1>5, <1>6 DEF Next, MainStep

(* So what the clients ask stays what it is.                                *)
LEMMA ClientNext == ASSUME ClientInv, Kept PROVE ClientInv' /\ Asked' = Asked
<1>1. \A c \in Clients : /\ client'[c].request = client[c].request
                         /\ PC(c)' = "absent" <=> PC(c) = "absent"
  BY DEF Kept, PC
<1>2. Asked' = Asked
  BY <1>1 DEF Asked
<1> QED
  BY <1>1, <1>2 DEF ClientInv, Kept

-----------------------------------------------------------------------------
(***************************************************************************)
(* The FIFO.                                                               *)
(***************************************************************************)

(* What a worker does, and a client that reads its answer, is seen neither *)
(* at the FIFO nor by main.                                                *)
Settles == /\ \A c \in Clients :
                \/ PC(c)' = PC(c)
                \/ PC(c) \in {"reply", "attached"} /\ PC(c)' \in {"attached", "done"}
           /\ UNCHANGED <<up, main, pipe, writers, written, enqueued, crowded>>

Ends == End /\ UNCHANGED <<client, pipe, writers, history>>

(* One client goes on.                                                     *)
Moves(c, from, to) == /\ PC(c) = from /\ PC(c)' = to
                      /\ \A d \in Clients \ {c} : PC(d)' = PC(d)

(* A step of one client leaves the others where they are.                   *)
LEMMA StepMoves ==
  ASSUME client \in [Clients -> ClientRecord], NEW c \in Clients, NEW from, NEW to,
         Step(c, from, to)
  PROVE  up /\ Moves(c, from, to)
BY DEF Step, Moves, PC, ClientRecord

(* A worker's step moves only a client that has its FIFO.                   *)
LEMMA WorkerSettles ==
  ASSUME ClientInv, PlaceInv, TaskInv, SessionInv, NEW w \in Workers,
         Take(w) \/ Answer(w) \/ Unanswered(w) \/ Refuse(w) \/ Admit(w) \/ Leave(w)
  PROVE  Settles
<1>1. client \in [Clients -> ClientRecord]
  BY DEF ClientInv
<1>2. CASE Take(w) \/ Unanswered(w)
  BY <1>2 DEF Take, Unanswered, Settles, history, PC
<1>3. CASE Answer(w)
  <2>1. PICK c \in Asker(TaskOf(w)), lines \in Replies(TaskOf(w)) :
          /\ PC(c) = "reply"
          /\ client' = [client EXCEPT ![c].pc = "attached", ![c].due = lines,
                                      ![c].inbox = [k \in DOMAIN lines |-> Line(lines[k])]]
    BY <1>3 DEF Answer
  <2>2. c \in Clients
    BY DEF Asker
  <2>3. PC(c)' = "attached" /\ \A d \in Clients \ {c} : PC(d)' = PC(d)
    BY <1>1, <2>1, <2>2 DEF PC, ClientRecord
  <2>4. UNCHANGED <<up, main, pipe, writers, history>>
    BY <1>3 DEF Answer
  <2>5. UNCHANGED enqueued /\ UNCHANGED <<written, crowded>>
    BY <2>4 DEF history
  <2> QED
    BY <2>1, <2>2, <2>3, <2>4, <2>5 DEF Settles
<1>4. CASE Refuse(w) \/ Admit(w)
  <2>1. PICK c \in Asker(TaskOf(w)), to \in {"attached", "done"} :
          PC(c) = "reply" /\ client' = [client EXCEPT ![c].pc = to]
    BY <1>4 DEF Refuse, Admit
  <2>2. c \in Clients
    BY DEF Asker
  <2> QED
    BY <1>1, <1>4, <2>1, <2>2 DEF Refuse, Admit, Settles, history, PC, ClientRecord
<1>5. CASE Leave(w)
  <2>1. PICK c \in Asker(TaskOf(w)) : client' = [client EXCEPT ![c].pc = "done"]
    BY <1>5 DEF Leave
  <2>2. PICK d \in Clients : PC(d) = "attached" /\ TaskOf(w) = client[d].request
    BY <1>5 DEF Leave, SessionInv
  <2>3. taken[w] # NoTask /\ Plain(TaskOf(w)).code \in Handled
    BY <1>5 DEF Leave, SessionInv, Handled
  <2>4. c \in Clients /\ HasFifo(c) /\ TaskOf(w) = client[c].request
    BY <2>3, TaskAsked
  <2>5. client[c].request # NoRequest
    BY <2>4, FifoPresent
  <2>6. c = d
    BY <2>2, <2>4, <2>5 DEF ClientInv
  <2>7. PC(c) = "attached" /\ PC(c)' = "done" /\ \A x \in Clients \ {c} : PC(x)' = PC(x)
    BY <1>1, <2>1, <2>2, <2>4, <2>6 DEF PC, ClientRecord
  <2>8. UNCHANGED <<up, main, pipe, writers, written, enqueued, crowded>>
    BY <1>5 DEF Leave, history
  <2> QED
    BY <2>7, <2>8 DEF Settles
<1> QED
  BY <1>2, <1>3, <1>4, <1>5

(* A client that reads its answer has nothing to do with main.              *)
LEMMA ReadSettles ==
  ASSUME ClientInv, NEW c \in Clients, ClientRead(c)
  PROVE  Settles
<1>1. client \in [Clients -> ClientRecord] /\ PC(c) = "attached"
  BY DEF ClientInv, ClientRead
<1>2. PICK pc \in {"attached", "done"} :
        client' = [client EXCEPT ![c].inbox = Tail(@),
                                 ![c].got = Append(@, reader_stc(Head(client[c].inbox))), ![c].pc = pc]
  BY <1>1 DEF ClientRead, PC
<1>3. PC(c)' = pc /\ \A d \in Clients \ {c} : PC(d)' = PC(d)
  BY <1>1, <1>2 DEF PC, ClientRecord
<1>4. UNCHANGED <<server, pipe, writers, written, crowded>>
  BY DEF ClientRead
<1> QED
  BY <1>1, <1>3, <1>4 DEF Settles, server

(* The steps, as the FIFO sees them. *)
FifoStep == \/ \E c \in Clients : ClientOpen(c) \/ ClientWrite(c) \/ ClientKilled(c) \/ ClientClose(c)
            \/ MainOpen \/ MainRead \/ MainPut \/ MainClose
            \/ Settles \/ Ends

(* Every step is one of those.                                              *)
LEMMA NextFifo ==
  ASSUME ClientInv, PlaceInv, TaskInv, SessionInv, [Next]_vars
  PROVE  FifoStep
<1>1. CASE UNCHANGED vars
  BY <1>1 DEF vars, FifoStep, Settles, PC
<1>2. ASSUME NEW c \in Clients, ClientOpen(c) \/ ClientStep(c) PROVE FifoStep
  BY <1>2, ReadSettles DEF ClientStep, FifoStep
<1>3. CASE MainStep \/ MainPut
  BY <1>3 DEF MainStep, FifoStep
<1>4. CASE end_program_ctrlC
  BY <1>4 DEF end_program_ctrlC, FifoStep, Ends
<1>5. ASSUME NEW w \in Workers, Take(w) \/ Handle(w) \/ Leave(w) PROVE FifoStep
  <2>1. CASE Crash(w) \/ Fatal(w)
    BY <2>1 DEF Crash, Fatal, FifoStep, Ends
  <2>2. CASE ~(Crash(w) \/ Fatal(w))
    BY <1>5, <2>2, WorkerSettles DEF Handle, FifoStep
  <2> QED
    BY <2>1, <2>2
<1> QED
  BY <1>1, <1>2, <1>3, <1>4, <1>5 DEF Next

(* What is in the FIFO and in main's buffer stays lines of requests. *)
LEMMA LineNext ==
  ASSUME ClientInv, LineInv, Kept, FifoStep
  PROVE  LineInv'
<1> DEFINE L == {LineOf(r) : r \in Asked}
           M == [pc : {"open", "opening", "read", "put", "close"}, buffer : {Blank} \cup L]
           At == {"opening", "opened", "written"}
<1>1. Asked' = Asked
  BY ClientNext
<1>2. client \in [Clients -> ClientRecord]
  BY DEF ClientInv
<1>3. /\ up \in BOOLEAN /\ main \in M /\ pipe \in Seq(L)
      /\ main.pc \notin {"put", "close"} => main.buffer = Blank
      /\ writers = {c \in Clients : PC(c) \in At}
      /\ up /\ main.pc \in {"open", "opening"} /\ writers = {} => pipe = <<>>
      /\ main.pc = "opening" => up /\ writers = {}
  BY DEF LineInv
<1> DEFINE Goal == /\ up' \in BOOLEAN /\ main' \in M /\ pipe' \in Seq(L)
                   /\ main'.pc \notin {"put", "close"} => main'.buffer = Blank
                   /\ writers' = {c \in Clients : PC(c)' \in At}
                   /\ up' /\ main'.pc \in {"open", "opening"} /\ writers' = {} => pipe' = <<>>
                   /\ main'.pc = "opening" => up' /\ writers' = {}
<1>4. SUFFICES Goal
  BY <1>1 DEF LineInv
<1> HIDE DEF L
<1>5. ASSUME NEW c \in Clients, ClientOpen(c)
      PROVE  Goal
  <2>1. PICK to \in {"opened", "opening"} : Moves(c, "start", to)
    BY <1>2, <1>5, StepMoves DEF ClientOpen
  <2>2. writers' = writers \cup {c} /\ UNCHANGED <<up, pipe>>
        /\ main' = [main EXCEPT !.pc = IF @ = "opening" THEN "read" ELSE @]
    BY <1>5 DEF ClientOpen
  <2> QED
    BY <1>3, <2>1, <2>2 DEF Moves
<1>6. ASSUME NEW c \in Clients, ClientWrite(c)
      PROVE  Goal
  <2>1. Moves(c, "opened", "written")
    BY <1>2, <1>6, StepMoves DEF ClientWrite
  <2>2. client[c].request # NoRequest
    BY <2>1 DEF Moves, ClientInv
  <2>3. LineOf(client[c].request) \in L
    BY <2>2 DEF Asked, L
  <2>4. pipe' = Append(pipe, LineOf(client[c].request)) /\ UNCHANGED <<server, writers>>
    BY <1>6 DEF ClientWrite, LineOf, Code
  <2>5. pipe' \in Seq(L)
    BY <1>3, <2>3, <2>4, AppendProperties
  <2>6. c \in writers /\ MainHas
    BY <1>3, <1>6, <2>1 DEF Moves, ClientWrite
  <2>7. writers' = {d \in Clients : PC(d)' \in At}
    BY <1>3, <2>1, <2>4 DEF Moves
  <2> QED
    BY <1>3, <2>4, <2>5, <2>6, <2>7 DEF MainHas, server
<1>7. ASSUME NEW c \in Clients, ClientKilled(c) \/ ClientClose(c)
      PROVE  Goal
  <2>1. PICK from \in At, to \in {"killed", "reply"} : Moves(c, from, to)
    BY <1>2, <1>7, StepMoves DEF ClientKilled, ClientClose
  <2>2. writers' = writers \ {c} /\ UNCHANGED <<up, main>>
        /\ pipe' = IF MainHas THEN pipe ELSE Left(pipe, writers')
    BY <1>7 DEF ClientKilled, ClientClose, server
  <2>3. writers' = {d \in Clients : PC(d)' \in At}
    BY <1>3, <2>1, <2>2 DEF Moves
  <2>4. c \in writers
    BY <1>3, <2>1 DEF Moves
  <2> QED
    BY <1>3, <2>2, <2>3, <2>4 DEF MainHas, Left
<1>8. CASE MainOpen
  <2>1. \A d \in Clients : PC(d)' = IF PC(d) = "opening" THEN "opened" ELSE PC(d)
    <3> SUFFICES ASSUME NEW d \in Clients
                 PROVE  PC(d)' = IF PC(d) = "opening" THEN "opened" ELSE PC(d)
      OBVIOUS
    <3>1. client'[d] = IF PC(d) = "opening" THEN [client[d] EXCEPT !.pc = "opened"] ELSE client[d]
      BY <1>8 DEF MainOpen
    <3>2. client[d] \in ClientRecord
      BY <1>2
    <3> QED
      BY <3>1, <3>2 DEF PC, ClientRecord
  <2>2. UNCHANGED <<up, pipe, writers>> /\ up /\ main.pc = "open"
        /\ main' = [main EXCEPT !.pc = IF writers = {} THEN "opening" ELSE "read"]
    BY <1>8 DEF MainOpen
  <2> QED
    BY <1>3, <2>1, <2>2
<1>9. CASE MainRead
  <2>1. UNCHANGED <<up, writers, client>> /\ main.pc = "read"
        /\ main' = [pc |-> "put", buffer |-> IF pipe = <<>> THEN main.buffer ELSE Head(pipe)]
        /\ pipe' = IF pipe = <<>> THEN pipe ELSE Tail(pipe)
    BY <1>9 DEF MainRead
  <2>2. pipe # <<>> => Head(pipe) \in L /\ Tail(pipe) \in Seq(L)
    BY <1>3, HeadTailProperties
  <2> QED
    BY <1>3, <2>1, <2>2 DEF PC
<1>10. CASE MainPut \/ MainClose
  <2>1. CASE MainPut
    BY <1>3, <2>1 DEF MainPut, PC
  <2>2. CASE MainClose
    BY <1>3, <2>2 DEF MainClose, PC, Left
  <2> QED
    BY <1>10, <2>1, <2>2
<1>11. CASE Settles
  BY <1>3, <1>11 DEF Settles
<1>12. CASE Ends
  BY <1>3, <1>12 DEF Ends, End, PC
<1> QED
  BY <1>5, <1>6, <1>7, <1>8, <1>9, <1>10, <1>11, <1>12 DEF FifoStep

-----------------------------------------------------------------------------
(***************************************************************************)
(* The tasks.                                                              *)
(***************************************************************************)

(* A set of numbers that is not empty has a least one. *)
LEMMA LeastOf ==
  ASSUME NEW S \in SUBSET Nat, S # {}
  PROVE  Min(S) \in S
<1> DEFINE T == {0 .. x : x \in S}
<1>1. T \subseteq FiniteSubsetsOf(Nat) /\ T # {}
  <2>1. ASSUME NEW x \in S PROVE 0 .. x \in FiniteSubsetsOf(Nat)
    <3>1. x \in Int /\ 0 \in Int
      OBVIOUS
    <3>2. IsFiniteSet(0 .. x)
      BY <3>1, FS_Interval
    <3> QED
      BY <3>2 DEF FiniteSubsetsOf
  <2> QED
    BY <2>1
<1>2. PICK I \in T : \A J \in T : ~ (<<J, I>> \in StrictSubsetOrdering(Nat))
  BY <1>1, FS_StrictSubsetOrderingWellFounded, WFMin
<1>3. PICK x \in S : I = 0 .. x
  OBVIOUS
<1>4. ASSUME NEW y \in S PROVE x <= y
  <2> SUFFICES ASSUME y < x PROVE FALSE
    OBVIOUS
  <2>1. 0 .. y \subseteq 0 .. x /\ x \in 0 .. x /\ x \notin 0 .. y
    OBVIOUS
  <2>2. <<0 .. y, 0 .. x>> \in StrictSubsetOrdering(Nat)
    BY <2>1 DEF StrictSubsetOrdering
  <2> QED
    BY <1>2, <1>3, <2>2
<1> QED
  BY <1>4 DEF Min

(* The queue and the workers do not use up the addresses. *)
LEMMA AddressLeft ==
  ASSUME PlaceInv, Len(queue) < Capacity
  PROVE  LET free == Addresses \ (TaskQueue!Waiting \cup TaskQueue!Running) IN Min(free) \in free
<1> DEFINE used == TaskQueue!Waiting \cup TaskQueue!Running
           n == Cardinality(Workers)
<1>1. n \in Nat /\ Capacity \in Nat /\ IsFiniteSet(Workers)
  BY IntakeAssumption, FS_CardinalityType
<1>2. IsFiniteSet(TaskQueue!Waiting) /\ Cardinality(TaskQueue!Waiting) < Capacity
  <2>1. Len(queue) \in Nat /\ DOMAIN queue = 1 .. Len(queue)
        /\ queue = [i \in 1 .. Len(queue) |-> queue[i]]
    BY DEF PlaceInv
  <2>2. IsFiniteSet(1 .. Len(queue)) /\ Cardinality(1 .. Len(queue)) = Len(queue)
    <3>1. 1 \in Int /\ Len(queue) \in Int
      BY <2>1
    <3>2. IsFiniteSet(1 .. Len(queue))
          /\ Cardinality(1 .. Len(queue)) = IF 1 > Len(queue) THEN 0 ELSE Len(queue) - 1 + 1
      BY <3>1, FS_Interval
    <3> QED
      BY <2>1, <3>2
  <2>3. queue \in Surjection(1 .. Len(queue), TaskQueue!Waiting)
    BY <2>1 DEF Surjection, TaskQueue!Waiting
  <2>4. IsFiniteSet(TaskQueue!Waiting) /\ Cardinality(TaskQueue!Waiting) <= Len(queue)
    BY <2>2, <2>3, FS_Surjection
  <2> QED
    BY <1>1, <2>1, <2>4, FS_CardinalityType
<1>3. IsFiniteSet(TaskQueue!Running) /\ Cardinality(TaskQueue!Running) <= n
  <2>1. taken \in Surjection(Workers, TaskQueue!Running)
    BY DEF PlaceInv, Surjection, TaskQueue!Running
  <2> QED
    BY <1>1, <2>1, FS_Surjection
<1>4. IsFiniteSet(used) /\ Cardinality(used) < Capacity + n
  <2>1. /\ Cardinality(TaskQueue!Waiting) \in Nat /\ Cardinality(TaskQueue!Running) \in Nat
        /\ Cardinality(TaskQueue!Waiting \cap TaskQueue!Running) \in Nat
    <3>1. TaskQueue!Waiting \cap TaskQueue!Running \in SUBSET TaskQueue!Waiting
      OBVIOUS
    <3> QED
      BY <1>2, <1>3, <3>1, FS_Subset, FS_CardinalityType
  <2>2. /\ IsFiniteSet(used)
        /\ Cardinality(used) = Cardinality(TaskQueue!Waiting) + Cardinality(TaskQueue!Running)
                                 - Cardinality(TaskQueue!Waiting \cap TaskQueue!Running)
    BY <1>2, <1>3, FS_Union
  <2> QED
    BY <1>1, <1>2, <1>3, <2>1, <2>2
<1>5. Cardinality(Addresses) = Capacity + n + 1
  <2>1. 1 \in Int /\ Capacity + n + 1 \in Int /\ ~(1 > Capacity + n + 1)
    BY <1>1
  <2> QED
    BY <1>1, <2>1, FS_Interval DEF Addresses
<1>6. ~(Addresses \subseteq used)
  <2> HIDE DEF used
  <2>1. Cardinality(used) \in Nat
    BY <1>4, FS_CardinalityType
  <2> QED
    BY <1>1, <1>4, <1>5, <2>1, FS_Subset
<1>7. Addresses \ used \in SUBSET Nat /\ Addresses \ used # {}
  BY <1>1, <1>6 DEF Addresses
<1> QED
  BY <1>7, LeastOf

(* What main takes from its buffer. *)
LEMMA BufferReads ==
  ASSUME ClientInv, LineInv
  PROVE  /\ reader_stc(main.buffer) \in Asked \cup {Nothing}
         /\ main.buffer # Blank => \A r \in Asked : main.buffer = LineOf(r) => reader_stc(main.buffer) = r
         /\ \A r \in Asked : reader_stc(LineOf(r)) = r /\ LineOf(r) # Blank /\ r # NoRequest /\ r # Nothing
                             /\ Plain(r).code \in Handled
<1>1. ASSUME NEW r \in Asked
      PROVE  reader_stc(LineOf(r)) = r /\ LineOf(r) # Blank /\ r # NoRequest /\ r # Nothing
             /\ Plain(r).code \in Handled
  <2>1. IsRequest(r) /\ r # NoRequest
    BY DEF Asked, ClientInv
  <2>2. reader_stc(LineOf(r)) = r /\ Plain(r).code \in Handled
    BY <2>1, RequestReads
  <2>3. r # Nothing
    BY <2>2, NothingIs
  <2> QED
    BY <2>1, <2>2, <2>3 DEF Nothing
<1>2. main.buffer = Blank \/ \E r \in Asked : main.buffer = LineOf(r)
  BY DEF LineInv
<1> QED
  BY <1>1, <1>2 DEF Nothing

(* The steps, as the tasks see them. *)
Queues(t, r) == /\ TaskQueue!Put(t) /\ tasks' = [tasks EXCEPT ![t] = r]
                /\ enqueued' = Append(enqueued, r)
TaskStep == \/ \E t \in Addresses, r \in Asked \cup {Nothing} : Queues(t, r) /\ UNCHANGED sessions
            \/ UNCHANGED enqueued /\ End
            \/ /\ UNCHANGED enqueued
               /\ \E w \in Workers :
                    \/ TaskQueue!Get(w) /\ UNCHANGED <<tasks, sessions>>
                    \/ Return(w) /\ sessions' = sessions \ {w}
                    \/ Admit(w) /\ UNCHANGED <<queue, taken, tasks>>
            \/ UNCHANGED <<tasks, queue, taken, sessions, enqueued>>

(* Every step is one of those.                                              *)
LEMMA NextTask ==
  ASSUME ClientInv, LineInv, PlaceInv, TaskInv, [Next]_vars
  PROVE  TaskStep
<1>1. CASE UNCHANGED vars
  BY <1>1 DEF vars, TaskStep
<1>2. ASSUME NEW c \in Clients, ClientOpen(c) \/ ClientStep(c) PROVE TaskStep
  BY <1>2 DEF ClientOpen, ClientStep, ClientWrite, ClientKilled, ClientClose, ClientRead, server, TaskStep
<1>3. CASE MainStep
  BY <1>3 DEF MainStep, MainOpen, MainRead, MainClose, history, TaskStep
<1>4. CASE MainPut
  <2> DEFINE t == Min(Addresses \ (TaskQueue!Waiting \cup TaskQueue!Running))
             r == reader_stc(main.buffer)
  <2>1. Queues(t, r) /\ UNCHANGED sessions
    BY <1>4 DEF MainPut, Queues
  <2>2. t \in Addresses
    BY <2>1, AddressLeft DEF Queues, TaskQueue!Put
  <2>3. r \in Asked \cup {Nothing}
    BY BufferReads
  <2> HIDE DEF t, r
  <2> QED
    BY <2>1, <2>2, <2>3 DEF TaskStep
<1>5. CASE end_program_ctrlC
  BY <1>5 DEF end_program_ctrlC, history, TaskStep
<1>6. ASSUME NEW w \in Workers, Take(w) \/ Handle(w) \/ Leave(w) PROVE TaskStep
  <2>1. CASE Crash(w) \/ Fatal(w)
    BY <2>1 DEF Crash, Fatal, history, TaskStep
  <2>2. CASE Take(w)
    BY <2>2 DEF Take, history, TaskStep
  <2>3. CASE Admit(w)
    BY <2>3 DEF Admit, history, TaskStep
  <2>4. CASE Leave(w)
    BY <2>4 DEF Leave, history, TaskStep
  <2>5. CASE Answer(w) \/ Unanswered(w) \/ Refuse(w)
    <3>1. w \notin sessions
      BY <2>5 DEF Answer, Unanswered, Refuse, Handles
    <3>2. UNCHANGED <<sessions, enqueued>> /\ Return(w)
      BY <2>5 DEF Answer, Unanswered, Refuse, history
    <3> QED
      BY <3>1, <3>2 DEF TaskStep
  <2> QED
    BY <1>6, <2>1, <2>2, <2>3, <2>4, <2>5 DEF Handle
<1> QED
  BY <1>1, <1>2, <1>3, <1>4, <1>5, <1>6 DEF Next

(* A task stays in one place. *)
LEMMA PlaceNext ==
  ASSUME PlaceInv, TaskStep
  PROVE  PlaceInv'
<1>1. /\ queue \in Seq(Addresses) /\ Len(queue) <= Capacity /\ Capacity \in Nat
      /\ taken \in [Workers -> Addresses \cup {NoTask}] /\ NoTask \notin Addresses
      /\ \A i, j \in DOMAIN queue : queue[i] = queue[j] => i = j
      /\ \A w \in Workers : taken[w] # NoTask =>
           /\ \A i \in DOMAIN queue : queue[i] # taken[w]
           /\ \A v \in Workers : taken[v] = taken[w] => v = w
  BY IntakeAssumption, RequestsAssumption DEF PlaceInv
<1>2. ASSUME NEW t \in Addresses, TaskQueue!Put(t)
      PROVE  PlaceInv'
  <2>1. Len(queue) < Capacity /\ queue' = Append(queue, t) /\ taken' = taken
    BY <1>2 DEF TaskQueue!Put
  <2>2. (\A i \in DOMAIN queue : queue[i] # t) /\ (\A w \in Workers : taken[w] # t)
    BY <1>2 DEF TaskQueue!Put, TaskQueue!Waiting, TaskQueue!Running
  <2>3. /\ queue' \in Seq(Addresses) /\ Len(queue') = Len(queue) + 1
        /\ DOMAIN queue' = 1 .. Len(queue) + 1 /\ DOMAIN queue = 1 .. Len(queue) /\ Len(queue) \in Nat
        /\ \A i \in DOMAIN queue : queue'[i] = queue[i]
        /\ queue'[Len(queue) + 1] = t
    BY <1>1, <2>1, AppendProperties, LenProperties
  <2> QED
    BY <1>1, <2>1, <2>2, <2>3 DEF PlaceInv
<1>3. ASSUME NEW w \in Workers, TaskQueue!Get(w)
      PROVE  PlaceInv'
  <2>1. queue # <<>> /\ taken[w] = NoTask /\ taken' = [taken EXCEPT ![w] = Head(queue)]
        /\ queue' = Tail(queue)
    BY <1>3 DEF TaskQueue!Get
  <2>2. /\ Head(queue) = queue[1] /\ 1 \in DOMAIN queue /\ queue' \in Seq(Addresses)
        /\ Len(queue') = Len(queue) - 1 /\ DOMAIN queue = 1 .. Len(queue) /\ Len(queue) \in Nat
        /\ DOMAIN queue' = 1 .. Len(queue) - 1
        /\ \A i \in DOMAIN queue' : i + 1 \in DOMAIN queue /\ i + 1 # 1 /\ queue'[i] = queue[i + 1]
    BY <1>1, <2>1, HeadTailProperties, LenProperties
  <2>3. queue[1] \in Addresses
    BY <1>1, <2>2
  <2>4. \A i, j \in DOMAIN queue' : queue'[i] = queue'[j] => i = j
    <3>1. ASSUME NEW i \in DOMAIN queue', NEW j \in DOMAIN queue', queue'[i] = queue'[j] PROVE i = j
      <4>1. i + 1 = j + 1
        BY <1>1, <2>2, <3>1
      <4> QED
        BY <2>2, <4>1
    <3> QED
      BY <3>1
  <2>5. \A i \in DOMAIN queue' : queue'[i] # queue[1]
    BY <1>1, <2>2
  <2> QED
    BY <1>1, <2>1, <2>2, <2>3, <2>4, <2>5 DEF PlaceInv
<1>4. ASSUME NEW w \in Workers, Return(w)
      PROVE  PlaceInv'
  BY <1>1, <1>4 DEF Return, TaskQueue!Done, PlaceInv
<1>5. CASE End
  BY <1>1, <1>5 DEF End, PlaceInv
<1>6. CASE UNCHANGED <<queue, taken>>
  BY <1>6 DEF PlaceInv
<1> QED
  BY <1>2, <1>3, <1>4, <1>5, <1>6 DEF TaskStep, Queues

(* An address holds what was put there for as long as a task is there. *)
LEMMA TasksNext ==
  ASSUME ClientInv, LineInv, PlaceInv, TaskInv, Kept, TaskStep
  PROVE  TaskInv'
<1> DEFINE T == Asked \cup {NoRequest, Nothing}
           used == TaskQueue!Waiting \cup TaskQueue!Running
<1>1. /\ queue \in Seq(Addresses) /\ taken \in [Workers -> Addresses \cup {NoTask}]
      /\ NoTask \notin Addresses
      /\ \A i, j \in DOMAIN queue : queue[i] = queue[j] => i = j
      /\ \A w \in Workers : taken[w] # NoTask =>
           /\ \A i \in DOMAIN queue : queue[i] # taken[w]
           /\ \A v \in Workers : taken[v] = taken[w] => v = w
  BY RequestsAssumption DEF PlaceInv
<1>2. /\ tasks \in [Addresses -> T] /\ enqueued \in Seq(Asked \cup {Nothing})
      /\ \A t \in Addresses : tasks[t] # NoRequest <=> t \in used
  BY DEF TaskInv
<1>3. Asked' = Asked
  BY ClientNext
<1>4. NoRequest \notin Asked /\ NoRequest # Nothing
  BY BufferReads, NothingIs
<1> DEFINE Goal == /\ tasks' \in [Addresses -> T] /\ enqueued' \in Seq(Asked \cup {Nothing})
                   /\ \A t \in Addresses : tasks'[t] # NoRequest <=> t \in used'
<1>5. SUFFICES Goal
  BY <1>3 DEF TaskInv, Nothing
<1>6. ASSUME NEW t \in Addresses, NEW r \in Asked \cup {Nothing}, Queues(t, r)
      PROVE  Goal
  <2>1. queue' = Append(queue, t) /\ taken' = taken /\ tasks' = [tasks EXCEPT ![t] = r]
        /\ enqueued' = Append(enqueued, r)
    BY <1>6 DEF Queues, TaskQueue!Put
  <2>2. used' = used \cup {t}
    <3>1. DOMAIN queue' = DOMAIN queue \cup {Len(queue) + 1} /\ queue'[Len(queue) + 1] = t
          /\ \A i \in DOMAIN queue : queue'[i] = queue[i]
      BY <1>1, <2>1, AppendProperties, LenProperties
    <3> QED
      BY <2>1, <3>1 DEF TaskQueue!Waiting, TaskQueue!Running
  <2>3. enqueued' \in Seq(Asked \cup {Nothing})
    BY <1>2, <2>1, AppendProperties
  <2> HIDE DEF used
  <2> QED
    BY <1>2, <1>4, <2>1, <2>2, <2>3
<1>7. ASSUME NEW w \in Workers, TaskQueue!Get(w), UNCHANGED <<tasks, enqueued>>
      PROVE  Goal
  <2>1. queue # <<>> /\ taken[w] = NoTask /\ taken' = [taken EXCEPT ![w] = Head(queue)]
        /\ queue' = Tail(queue)
    BY <1>7 DEF TaskQueue!Get
  <2>2. /\ Head(queue) = queue[1] /\ 1 \in DOMAIN queue
        /\ Len(queue') = Len(queue) - 1 /\ DOMAIN queue = 1 .. Len(queue) /\ Len(queue) \in Nat
        /\ DOMAIN queue' = 1 .. Len(queue) - 1
        /\ \A i \in DOMAIN queue' : queue'[i] = queue[i + 1]
    BY <1>1, <2>1, HeadTailProperties, LenProperties
  <2>3. TaskQueue!Waiting = TaskQueue!Waiting' \cup {queue[1]}
    <3>1. ASSUME NEW i \in DOMAIN queue, i # 1
          PROVE  i - 1 \in DOMAIN queue' /\ queue'[i - 1] = queue[i]
      BY <2>2, <3>1
    <3>2. ASSUME NEW i \in DOMAIN queue' PROVE i + 1 \in DOMAIN queue /\ queue'[i] = queue[i + 1]
      BY <2>2
    <3> QED
      BY <2>2, <3>1, <3>2 DEF TaskQueue!Waiting
  <2>4. TaskQueue!Running' \cup {NoTask} = TaskQueue!Running \cup {queue[1]} \cup {NoTask}
    BY <1>1, <2>1, <2>2 DEF TaskQueue!Running
  <2>5. \A t \in Addresses : t \in used <=> t \in used'
    BY <1>1, <2>3, <2>4
  <2> HIDE DEF used
  <2> QED
    BY <1>2, <1>7, <2>5
<1>8. ASSUME NEW w \in Workers, Return(w), UNCHANGED enqueued
      PROVE  Goal
  <2>1. taken[w] # NoTask /\ taken' = [taken EXCEPT ![w] = NoTask] /\ queue' = queue
        /\ tasks' = [tasks EXCEPT ![taken[w]] = NoRequest]
    BY <1>8 DEF Return, TaskQueue!Done
  <2>2. taken[w] \in Addresses
    BY <1>1, <2>1
  <2>3. TaskQueue!Waiting' = TaskQueue!Waiting /\ taken[w] \notin TaskQueue!Waiting
    BY <1>1, <2>1 DEF TaskQueue!Waiting
  <2>4. TaskQueue!Running' = (TaskQueue!Running \ {taken[w]}) \cup {NoTask}
    BY <1>1, <2>1 DEF TaskQueue!Running
  <2>5. \A t \in Addresses : t \in used' <=> t \in used /\ t # taken[w]
    BY <1>1, <2>3, <2>4
  <2> HIDE DEF used
  <2> QED
    BY <1>2, <1>8, <2>1, <2>2, <2>5
<1>9. CASE End /\ UNCHANGED enqueued
  <2>1. queue' = <<>> /\ taken' = [w \in Workers |-> NoTask] /\ tasks' = [t \in Addresses |-> NoRequest]
    BY <1>9 DEF End
  <2>2. used' \subseteq {NoTask}
    BY <2>1 DEF TaskQueue!Waiting, TaskQueue!Running
  <2> HIDE DEF used
  <2> QED
    BY <1>1, <1>2, <1>9, <2>1, <2>2
<1>10. CASE UNCHANGED <<tasks, queue, taken, enqueued>>
  BY <1>2, <1>10 DEF TaskQueue!Waiting, TaskQueue!Running
<1> QED
  BY <1>6, <1>7, <1>8, <1>9, <1>10 DEF TaskStep

-----------------------------------------------------------------------------
(***************************************************************************)
(* The sessions.                                                           *)
(***************************************************************************)

(* The sessions that go on are still with clients of their own. *)
LEMMA SessionStays ==
  ASSUME SessionInv, Kept, sessions' \subseteq sessions,
         \A w \in sessions' :
           /\ taken'[w] = taken[w] /\ tasks'[taken[w]] = tasks[taken[w]]
           /\ \A d \in Clients : PC(d) = "attached" /\ TaskOf(w) = client[d].request => PC(d)' = "attached"
  PROVE  SessionInv'
<1>1. \A w \in sessions' : TaskOf(w)' = TaskOf(w)
  BY DEF TaskOf
<1>2. \A d \in Clients : client'[d].request = client[d].request
  BY DEF Kept
<1>3. ASSUME NEW w \in sessions'
      PROVE  /\ taken'[w] # NoTask /\ Plain(TaskOf(w)').code \in {1, 2}
             /\ \E c \in Clients : PC(c)' = "attached" /\ TaskOf(w)' = client'[c].request
             /\ \A v \in sessions' \ {w} : TaskOf(v)' # TaskOf(w)'
  BY <1>1, <1>2 DEF SessionInv
<1>4. sessions' \subseteq Workers
  BY DEF SessionInv
<1> QED
  BY <1>3, <1>4 DEF SessionInv

(* No step takes the client of a session away, or gives it to two.          *)
LEMMA SessionNext ==
  ASSUME ClientInv, PlaceInv, TaskInv, SessionInv, ReplyInv, Kept, [Next]_vars
  PROVE  SessionInv'
<1>1. client \in [Clients -> ClientRecord]
  BY DEF ClientInv
<1>2. ASSUME NEW c \in Clients, NEW from, NEW to, Step(c, from, to), from # "attached",
             UNCHANGED <<tasks, taken, sessions>>
      PROVE  SessionInv'
  BY <1>1, <1>2, StepMoves, SessionStays DEF Moves
<1>3. ASSUME UNCHANGED <<tasks, taken, sessions, client>>
      PROVE  SessionInv'
  BY <1>3, SessionStays DEF PC
<1>4. CASE UNCHANGED vars \/ MainRead \/ MainClose
  BY <1>3, <1>4 DEF vars, MainRead, MainClose
<1>5. ASSUME NEW c \in Clients, ClientOpen(c) \/ ClientWrite(c) \/ ClientKilled(c) \/ ClientClose(c)
      PROVE  SessionInv'
  <2>1. CASE ClientOpen(c)
    BY <1>2, <2>1 DEF ClientOpen
  <2>2. CASE ClientWrite(c)
    BY <1>2, <2>2 DEF ClientWrite, server
  <2>3. CASE ClientKilled(c)
    BY <1>2, <2>3 DEF ClientKilled, server
  <2>4. CASE ClientClose(c)
    BY <1>2, <2>4 DEF ClientClose, server
  <2> QED
    BY <1>5, <2>1, <2>2, <2>3, <2>4
<1>6. ASSUME NEW c \in Clients, ClientRead(c)
      PROVE  SessionInv'
  <2>1. UNCHANGED <<tasks, taken, sessions>> /\ PC(c) = "attached" /\ client[c].inbox # <<>>
    BY <1>6 DEF ClientRead, server
  <2>2. Code(c) \notin {1, 2}
    BY <2>1 DEF ReplyInv, Replied
  <2>3. \A d \in Clients \ {c} : client'[d] = client[d]
    BY <1>1, <1>6 DEF ClientRead
  <2>4. \A w \in sessions, d \in Clients :
          PC(d) = "attached" /\ TaskOf(w) = client[d].request => PC(d)' = "attached"
    BY <2>2, <2>3 DEF SessionInv, PC, Code
  <2> QED
    BY <2>1, <2>4, SessionStays
<1>7. CASE MainOpen
  <2>1. UNCHANGED <<tasks, taken, sessions>>
        /\ \A d \in Clients : PC(d) # "opening" => client'[d] = client[d]
    BY <1>7 DEF MainOpen
  <2> QED
    BY <2>1, SessionStays DEF PC
<1>8. CASE MainPut
  <2>1. PICK t : TaskQueue!Put(t) /\ (\E r : tasks' = [tasks EXCEPT ![t] = r])
                 /\ UNCHANGED <<sessions, client>>
    BY <1>8 DEF MainPut
  <2>2. \A w \in sessions : taken'[w] = taken[w] /\ taken[w] # t
    BY <2>1 DEF TaskQueue!Put, TaskQueue!Running, SessionInv
  <2>3. \A w \in sessions : taken[w] \in Addresses
    BY DEF SessionInv, PlaceInv
  <2>4. \A w \in sessions : tasks'[taken[w]] = tasks[taken[w]]
    BY <2>1, <2>2, <2>3 DEF TaskInv
  <2> QED
    BY <2>1, <2>2, <2>4, SessionStays DEF PC
<1>9. ASSUME NEW w \in Workers, Take(w)
      PROVE  SessionInv'
  <2>1. taken[w] = NoTask /\ taken' = [taken EXCEPT ![w] = Head(queue)]
        /\ UNCHANGED <<tasks, sessions, client>>
    BY <1>9 DEF Take, TaskQueue!Get
  <2>2. \A v \in sessions : taken'[v] = taken[v]
    BY <2>1 DEF SessionInv, PlaceInv
  <2> QED
    BY <2>1, <2>2, SessionStays DEF PC
<1>10. ASSUME NEW w \in Workers, Return(w), sessions' = sessions \ {w},
              \A d \in Clients : PC(d) = "attached" /\ PC(d)' # "attached" =>
                                  TaskOf(w) = client[d].request /\ w \in sessions
       PROVE  SessionInv'
  <2>1. taken[w] # NoTask /\ taken' = [taken EXCEPT ![w] = NoTask]
        /\ tasks' = [tasks EXCEPT ![taken[w]] = NoRequest]
    BY <1>10 DEF Return, TaskQueue!Done
  <2>2. \A v \in sessions' : v # w /\ taken[v] # NoTask /\ v \in Workers /\ taken[v] \in Addresses
    BY <1>10 DEF SessionInv, PlaceInv
  <2>3. \A v \in sessions' : taken'[v] = taken[v] /\ taken[v] # taken[w]
    BY <2>1, <2>2 DEF PlaceInv
  <2>4. \A v \in sessions' : tasks'[taken[v]] = tasks[taken[v]]
    BY <2>1, <2>2, <2>3 DEF TaskInv
  <2>5. \A v \in sessions', d \in Clients :
          PC(d) = "attached" /\ TaskOf(v) = client[d].request => PC(d)' = "attached"
    BY <1>10, <2>2 DEF SessionInv
  <2> QED
    BY <1>10, <2>3, <2>4, <2>5, SessionStays
<1>11. ASSUME NEW w \in Workers, Answer(w) \/ Unanswered(w) \/ Refuse(w)
       PROVE  SessionInv'
  <2>1. w \notin sessions /\ UNCHANGED sessions /\ Return(w)
    BY <1>11 DEF Answer, Unanswered, Refuse, Handles
  <2>2. \A d \in Clients : PC(d) = "attached" => PC(d)' = "attached"
    <3>1. CASE Unanswered(w)
      BY <3>1 DEF Unanswered, PC
    <3>2. CASE Answer(w) \/ Refuse(w)
      <4>1. PICK c \in Clients : PC(c) = "reply" /\ \A d \in Clients \ {c} : client'[d] = client[d]
        BY <1>1, <3>2 DEF Answer, Refuse, Asker
      <4> QED
        BY <4>1 DEF PC
    <3> QED
      BY <1>11, <3>1, <3>2
  <2> QED
    BY <1>10, <2>1, <2>2
<1>12. ASSUME NEW w \in Workers, Leave(w)
       PROVE  SessionInv'
  <2>1. PICK c \in Asker(TaskOf(w)) : client' = [client EXCEPT ![c].pc = "done"]
    BY <1>12 DEF Leave
  <2>2. w \in sessions /\ sessions' = sessions \ {w} /\ Return(w)
    BY <1>12 DEF Leave
  <2>3. c \in Clients /\ TaskOf(w) = client[c].request
    BY <2>2, TaskAsked DEF SessionInv, Handled
  <2>4. \A d \in Clients \ {c} : client'[d] = client[d]
    BY <1>1, <2>1
  <2> QED
    BY <1>10, <2>2, <2>3, <2>4 DEF PC
<1>13. ASSUME NEW w \in Workers, Admit(w)
       PROVE  SessionInv'
  <2>1. PICK c \in Asker(TaskOf(w)) : PC(c) = "reply" /\ client' = [client EXCEPT ![c].pc = "attached"]
    BY <1>13 DEF Admit
  <2>2. /\ taken[w] # NoTask /\ Plain(TaskOf(w)).code \in {1, 2} /\ sessions' = sessions \cup {w}
        /\ UNCHANGED <<taken, tasks>>
    BY <1>13 DEF Admit, Handles
  <2>3. c \in Clients /\ TaskOf(w) = client[c].request /\ HasFifo(c)
    BY <2>2, TaskAsked DEF Handled
  <2>4. client[c].request # NoRequest
    BY <2>3, FifoPresent
  <2>5. PC(c)' = "attached" /\ (\A d \in Clients \ {c} : PC(d)' = PC(d))
        /\ \A d \in Clients : client'[d].request = client[d].request
    BY <1>1, <2>1, <2>3 DEF PC, ClientRecord
  <2>6. ASSUME NEW v \in sessions
        PROVE  /\ TaskOf(v) # TaskOf(w)
               /\ taken[v] # NoTask /\ Plain(TaskOf(v)).code \in {1, 2}
               /\ \E d \in Clients : PC(d)' = "attached" /\ TaskOf(v) = client'[d].request
    <3>1. PICK d \in Clients : PC(d) = "attached" /\ TaskOf(v) = client[d].request
      BY DEF SessionInv
    <3>2. client[d].request # client[c].request
      BY <2>1, <2>3, <2>4, <3>1 DEF ClientInv
    <3>3. PC(d)' = "attached"
      BY <2>5, <3>1
    <3> QED
      BY <2>3, <2>5, <3>1, <3>2, <3>3 DEF SessionInv
  <2>7. \A v \in sessions' : TaskOf(v)' = TaskOf(v)
    BY <2>2 DEF TaskOf
  <2>8. \A v, x \in sessions : v # x => TaskOf(v) # TaskOf(x)
    BY DEF SessionInv
  <2>9. sessions' \subseteq Workers
    BY <2>2 DEF SessionInv
  <2>10. ASSUME NEW v \in sessions'
         PROVE  /\ taken'[v] # NoTask /\ Plain(TaskOf(v)').code \in {1, 2}
                /\ \E d \in Clients : PC(d)' = "attached" /\ TaskOf(v)' = client'[d].request
                /\ \A x \in sessions' \ {v} : TaskOf(x)' # TaskOf(v)'
    BY <2>2, <2>3, <2>5, <2>6, <2>7, <2>8
  <2> QED
    BY <2>9, <2>10 DEF SessionInv
<1>14. ASSUME End
       PROVE  SessionInv'
  BY <1>14 DEF End, SessionInv
<1>15. ASSUME NEW w \in Workers, Take(w) \/ Handle(w) \/ Leave(w)
       PROVE  SessionInv'
  BY <1>9, <1>11, <1>12, <1>13, <1>14, <1>15 DEF Handle, Crash, Fatal
<1> QED
  BY <1>4, <1>5, <1>6, <1>7, <1>8, <1>14, <1>15 DEF Next, ClientStep, MainStep, end_program_ctrlC

-----------------------------------------------------------------------------
(***************************************************************************)
(* The answers.                                                            *)
(***************************************************************************)

(* A client for which nothing has come or gone keeps what it has. *)
LEMMA RepliedStays ==
  ASSUME NEW c \in Clients, Replied(c),
         client'[c].request = client[c].request, client'[c].due = client[c].due,
         client'[c].got = client[c].got, client'[c].inbox = client[c].inbox,
         \/ PC(c)' = PC(c)
         \/ PC(c) \in Before /\ PC(c)' \in Before
         \/ PC(c) \in Before /\ PC(c)' = "done"
         \/ Code(c) \in {1, 2} /\ PC(c)' \in {"attached", "done"}
  PROVE  Replied(c)'
<1>1. Code(c)' = Code(c)
  BY DEF Code
<1>2. Code(c) \in {1, 2} => Code(c) \notin Managed
  BY DEF Managed
<1> QED
  BY <1>1, <1>2 DEF Replied, Before

(* A client reads the line that is next, and knows the last one when it    *)
(* reads it.                                                               *)
LEMMA RepliedRead ==
  ASSUME ClientInv, ReplyInv, NEW c \in Clients, ClientRead(c)
  PROVE  Replied(c)'
<1> DEFINE due == client[c].due
           got == client[c].got
           inbox == client[c].inbox
           r == reader_stc(Head(inbox))
           L == {Line(s) : s \in Sendable}
<1>1. PC(c) = "attached" /\ inbox # <<>> /\ Replied(c)
  BY DEF ClientRead, ReplyInv
<1>2. due \in Seq(Sendable) /\ got \in Seq(Sendable) /\ inbox \in Seq(L)
      /\ client \in [Clients -> ClientRecord]
  BY DEF ClientInv, ClientRecord
<1>3. Code(c) \in Managed
  <2>1. IsRequest(client[c].request)
    BY <1>1 DEF ClientInv
  <2>2. Code(c) \in Handled /\ Code(c) \notin {1, 2}
    BY <1>1, <2>1 DEF Replied, IsRequest, Code
  <2> QED
    BY <2>2 DEF Handled
<1>4. /\ \A k \in DOMAIN due : Marked(due[k]) <=> k < Len(due)
      /\ Len(got) + Len(inbox) = Len(due)
      /\ \A k \in DOMAIN got : got[k] = due[k]
      /\ \A k \in DOMAIN inbox : inbox[k] = Line(due[Len(got) + k])
  BY <1>1, <1>3 DEF Replied
<1>5. client' = [client EXCEPT ![c].inbox = Tail(@), ![c].got = Append(@, r),
                               ![c].pc = IF Marked(r) THEN "attached" ELSE "done"]
  BY <1>1 DEF ClientRead, PC, Marked
<1> HIDE DEF L, r
<1>6. /\ client'[c].due = due /\ client'[c].request = client[c].request
      /\ client'[c].inbox = Tail(inbox) /\ client'[c].got = Append(got, r)
      /\ client'[c].pc = IF Marked(r) THEN "attached" ELSE "done"
  BY <1>2, <1>5 DEF ClientRecord
<1> HIDE DEF due, got, inbox
<1>7. /\ Len(due) \in Nat /\ Len(got) \in Nat /\ Len(inbox) \in Nat /\ Len(inbox) > 0
      /\ DOMAIN due = 1 .. Len(due) /\ DOMAIN got = 1 .. Len(got) /\ DOMAIN inbox = 1 .. Len(inbox)
      /\ Head(inbox) = inbox[1]
  BY <1>1, <1>2, LenProperties, EmptySeq, HeadTailProperties DEF inbox
<1>8. Len(got) + 1 \in DOMAIN due /\ due[Len(got) + 1] \in Sendable
  <2>1. Len(got) + 1 \in DOMAIN due
    BY <1>4, <1>7
  <2> QED
    BY <1>2, <2>1, ElementOfSeq, <1>7
<1>9. r = due[Len(got) + 1]
  <2>1. Head(inbox) = Line(due[Len(got) + 1])
    BY <1>4, <1>7
  <2> QED
    BY <1>8, <2>1, SentReads DEF r
<1>10. /\ Len(Tail(inbox)) = Len(inbox) - 1 /\ DOMAIN Tail(inbox) = 1 .. Len(inbox) - 1
       /\ \A k \in 1 .. Len(inbox) - 1 : Tail(inbox)[k] = inbox[k + 1]
  BY <1>1, <1>2, <1>7, HeadTailProperties, LenProperties DEF inbox
<1>11. /\ Len(Append(got, r)) = Len(got) + 1 /\ DOMAIN Append(got, r) = 1 .. Len(got) + 1
       /\ \A k \in 1 .. Len(got) : Append(got, r)[k] = got[k]
       /\ Append(got, r)[Len(got) + 1] = r /\ Append(got, r) \in Seq(Sendable)
  BY <1>2, <1>7, <1>8, <1>9, AppendProperties, LenProperties
<1>12. \A k \in 1 .. Len(got) + 1 : Append(got, r)[k] = due[k]
  BY <1>4, <1>7, <1>9, <1>11
<1>13. \A k \in 1 .. Len(inbox) - 1 : Tail(inbox)[k] = Line(due[Len(got) + 1 + k])
  <2>1. ASSUME NEW k \in 1 .. Len(inbox) - 1
        PROVE  Tail(inbox)[k] = Line(due[Len(got) + 1 + k])
    <3>1. k + 1 \in DOMAIN inbox /\ Len(got) + (k + 1) = Len(got) + 1 + k
      BY <1>7
    <3> QED
      BY <1>4, <1>10, <3>1
  <2> QED
    BY <2>1
<1>14. Code(c)' = Code(c) /\ Code(c) \notin {1, 2} /\ PC(c)' \notin Before
  BY <1>3, <1>6 DEF Code, PC, Managed, Before
<1>15. Marked(r) => Tail(inbox) # <<>>
  <2>1. Marked(r) => Len(Tail(inbox)) > 0
    BY <1>4, <1>7, <1>8, <1>9, <1>10
  <2> QED
    BY <2>1, EmptySeq
<1>16. ~Marked(r) => Append(got, r) = due
  <2>1. ~Marked(r) => Len(got) + 1 = Len(due)
    BY <1>4, <1>7, <1>8, <1>9
  <2> QED
    BY <1>2, <1>7, <1>11, <1>12, <2>1, SeqEqual
<1> DEFINE got2 == Append(got, r)
           inbox2 == Tail(inbox)
<1>17. Len(got2) + Len(inbox2) = Len(due)
  <2>1. Len(got) + Len(inbox) = Len(due)
    BY <1>4
  <2>2. Len(inbox2) = Len(inbox) - 1 /\ Len(got2) = Len(got) + 1
    BY <1>10, <1>11
  <2>3. Len(due) \in Nat /\ Len(got) \in Nat /\ Len(inbox) \in Nat
    BY <1>7
  <2> HIDE DEF got2, inbox2
  <2> QED
    BY <2>1, <2>2, <2>3
<1>18. PC(c)' = IF Marked(r) THEN "attached" ELSE "done"
  BY <1>6 DEF PC
<1>19. \A k \in DOMAIN got2 : got2[k] = due[k]
  BY <1>11, <1>12
<1>20. \A k \in DOMAIN inbox2 : inbox2[k] = Line(due[Len(got2) + k])
  BY <1>10, <1>11, <1>13
<1>21. \A k \in DOMAIN due : Marked(due[k]) <=> k < Len(due)
  BY <1>4
<1> HIDE DEF got2, inbox2
<1> QED
  BY <1>6, <1>14, <1>15, <1>16, <1>17, <1>18, <1>19, <1>20, <1>21 DEF Replied, got2, inbox2

(* A manager that gets its answer has got nothing before. *)
LEMMA RepliedAnswer ==
  ASSUME ClientInv, ReplyInv, NEW c \in Clients, PC(c) = "reply",
         NEW q, Plain(q).code \in Managed, client[c].request = q, NEW lines \in Replies(q),
         client' = [client EXCEPT ![c].pc = "attached", ![c].due = lines,
                                  ![c].inbox = [k \in DOMAIN lines |-> Line(lines[k])]]
  PROVE  Replied(c)'
<1> DEFINE inbox == [k \in DOMAIN lines |-> Line(lines[k])]
<1>1. /\ DOMAIN lines = 1 .. Len(lines) /\ Len(lines) \in Nat \ {0}
      /\ \A k \in DOMAIN lines : Marked(lines[k]) <=> k < Len(lines)
  BY RepliesRead
<1>2. client[c].got = <<>>
  BY DEF ReplyInv, Replied, Before
<1>3. client \in [Clients -> ClientRecord]
  BY DEF ClientInv
<1> HIDE DEF inbox
<1>4. /\ client'[c].due = lines /\ client'[c].got = <<>> /\ client'[c].inbox = inbox
      /\ client'[c].pc = "attached" /\ client'[c].request = q
  BY <1>2, <1>3 DEF ClientRecord, inbox
<1>5. Len(inbox) = Len(lines) /\ DOMAIN inbox = 1 .. Len(lines)
      /\ \A k \in 1 .. Len(lines) : inbox[k] = Line(lines[k])
  <2>1. inbox = [k \in 1 .. Len(lines) |-> Line(lines[k])]
    BY <1>1 DEF inbox
  <2>2. inbox = [k \in 1 .. Len(lines) |-> inbox[k]]
    BY <2>1
  <2> QED
    BY <1>1, <2>1, <2>2, LengthOf
<1>6. inbox # <<>>
  BY <1>1, <1>5
<1>7. Code(c)' \in Managed /\ Code(c)' \notin {1, 2} /\ PC(c)' = "attached"
  BY <1>4 DEF Code, PC, Managed
<1>8. Len(<<>>) = 0 /\ DOMAIN <<>> = {}
  OBVIOUS
<1>9. 0 + Len(inbox) = Len(lines) /\ \A k \in DOMAIN inbox : inbox[k] = Line(lines[0 + k])
  BY <1>1, <1>5
<1> QED
  BY <1>1, <1>4, <1>6, <1>7, <1>8, <1>9 DEF Replied, Before

(* No step gives a manager a line that is not its own.                      *)
LEMMA ReplyNext ==
  ASSUME ClientInv, PlaceInv, TaskInv, SessionInv, ReplyInv, [Next]_vars
  PROVE  ReplyInv'
<1>1. client \in [Clients -> ClientRecord]
  BY DEF ClientInv
<1>2. \A c \in Clients : Replied(c)
  BY DEF ReplyInv
<1>3. ASSUME UNCHANGED client
      PROVE  ReplyInv'
  BY <1>2, <1>3, RepliedStays DEF ReplyInv, PC
<1>4. ASSUME NEW c \in Clients, NEW from \in Before, NEW to \in Before, Step(c, from, to)
      PROVE  ReplyInv'
  <2>1. client' = [client EXCEPT ![c].pc = to] /\ PC(c) = from
    BY <1>4 DEF Step
  <2>2. ASSUME NEW d \in Clients
        PROVE  /\ client'[d].request = client[d].request /\ client'[d].due = client[d].due
               /\ client'[d].got = client[d].got /\ client'[d].inbox = client[d].inbox
               /\ PC(d)' = PC(d) \/ (PC(d) \in Before /\ PC(d)' \in Before)
    BY <1>1, <2>1 DEF PC, ClientRecord
  <2> QED
    BY <1>2, <2>2, RepliedStays DEF ReplyInv
<1>5. ASSUME NEW c \in Clients, Replied(c)', \A d \in Clients \ {c} : client'[d] = client[d]
      PROVE  ReplyInv'
  BY <1>2, <1>5, RepliedStays DEF ReplyInv, PC
<1>6. ASSUME NEW c \in Clients, NEW to \in {"attached", "done"}, client' = [client EXCEPT ![c].pc = to],
             Code(c) \in {1, 2}
      PROVE  ReplyInv'
  <2>1. /\ client'[c].request = client[c].request /\ client'[c].due = client[c].due
        /\ client'[c].got = client[c].got /\ client'[c].inbox = client[c].inbox
        /\ PC(c)' = to /\ \A d \in Clients \ {c} : client'[d] = client[d]
    BY <1>1, <1>6 DEF PC, ClientRecord
  <2> QED
    BY <1>2, <1>5, <1>6, <2>1, RepliedStays
<1>7. CASE UNCHANGED vars \/ MainRead \/ MainPut \/ MainClose \/ end_program_ctrlC
  BY <1>3, <1>7 DEF vars, MainRead, MainPut, MainClose, end_program_ctrlC
<1>8. ASSUME NEW c \in Clients, ClientOpen(c) \/ ClientStep(c)
      PROVE  ReplyInv'
  <2>1. CASE ClientOpen(c)
    BY <1>4, <2>1 DEF ClientOpen, Before
  <2>2. CASE ClientWrite(c)
    BY <1>4, <2>2 DEF ClientWrite, Before
  <2>3. CASE ClientKilled(c)
    BY <1>4, <2>3 DEF ClientKilled, Before
  <2>4. CASE ClientClose(c)
    BY <1>4, <2>4 DEF ClientClose, Before
  <2>5. CASE ClientRead(c)
    <3>1. \A d \in Clients \ {c} : client'[d] = client[d]
      BY <1>1, <2>5 DEF ClientRead
    <3> QED
      BY <1>5, <2>5, <3>1, RepliedRead
  <2> QED
    BY <1>8, <2>1, <2>2, <2>3, <2>4, <2>5 DEF ClientStep
<1>9. CASE MainOpen
  <2>1. ASSUME NEW d \in Clients
        PROVE  /\ client'[d].request = client[d].request /\ client'[d].due = client[d].due
               /\ client'[d].got = client[d].got /\ client'[d].inbox = client[d].inbox
               /\ PC(d)' = PC(d) \/ (PC(d) \in Before /\ PC(d)' \in Before)
    <3>1. client'[d] = IF PC(d) = "opening" THEN [client[d] EXCEPT !.pc = "opened"] ELSE client[d]
      BY <1>9 DEF MainOpen
    <3>2. client[d] \in ClientRecord
      BY <1>1
    <3> QED
      BY <3>1, <3>2 DEF PC, ClientRecord, Before
  <2> QED
    BY <1>2, <2>1, RepliedStays DEF ReplyInv
<1>10. ASSUME NEW w \in Workers, Take(w) \/ Handle(w) \/ Leave(w)
       PROVE  ReplyInv'
  <2>1. CASE Take(w) \/ Crash(w) \/ Fatal(w) \/ Unanswered(w)
    BY <1>3, <2>1 DEF Take, Crash, Fatal, Unanswered
  <2>2. CASE Answer(w)
    <3>1. taken[w] # NoTask /\ Plain(TaskOf(w)).code \in Managed
      BY <2>2 DEF Answer, Handles
    <3>2. PICK c \in Asker(TaskOf(w)), lines \in Replies(TaskOf(w)) :
            /\ PC(c) = "reply"
            /\ client' = [client EXCEPT ![c].pc = "attached", ![c].due = lines,
                                        ![c].inbox = [k \in DOMAIN lines |-> Line(lines[k])]]
      BY <2>2 DEF Answer
    <3>3. c \in Clients /\ client[c].request = TaskOf(w)
      BY <3>1, TaskAsked DEF Handled
    <3>4. Replied(c)'
      BY <3>1, <3>2, <3>3, RepliedAnswer
    <3>5. \A d \in Clients \ {c} : client'[d] = client[d]
      BY <1>1, <3>2
    <3> QED
      BY <1>5, <3>3, <3>4, <3>5
  <2>3. CASE Refuse(w) \/ Admit(w) \/ Leave(w)
    <3>1. PICK c \in Asker(TaskOf(w)), to \in {"attached", "done"} :
            client' = [client EXCEPT ![c].pc = to]
      BY <2>3 DEF Refuse, Admit, Leave
    <3>2. taken[w] # NoTask /\ Plain(TaskOf(w)).code \in {1, 2}
      BY <2>3 DEF Refuse, Admit, Leave, Handles, SessionInv
    <3>3. c \in Clients /\ TaskOf(w) = client[c].request
      BY <3>2, TaskAsked DEF Handled
    <3> QED
      BY <1>6, <3>1, <3>2, <3>3 DEF Code
  <2> QED
    BY <1>10, <2>1, <2>2, <2>3 DEF Handle
<1> QED
  BY <1>7, <1>8, <1>9, <1>10 DEF Next, MainStep

-----------------------------------------------------------------------------
(***************************************************************************)
(* The order of the requests.                                              *)
(***************************************************************************)
Unwritten == {"absent", "start", "opening", "opened", "killed"}

(* A step that writes nothing, queues nothing and puts no line before main *)
(* keeps the order, even if what is in the FIFO is lost.                   *)
LEMMA OrderStays ==
  ASSUME ClientInv, LineInv, TaskInv, OrderInv, Kept, UNCHANGED <<written, enqueued>>,
         \A c \in Clients : PC(c) \notin Unwritten => PC(c)' \notin Unwritten,
         pipe' \in {pipe, <<>>},
         main'.pc = "put" => main' = main /\ pipe' = pipe
  PROVE  OrderInv'
<1>1. /\ written \in Seq(Clients) /\ Len(pipe) <= Len(written)
      /\ \A k \in DOMAIN written : PC(written[k]) \notin Unwritten
      /\ \A j, k \in DOMAIN written : written[j] = written[k] => j = k
      /\ \A k \in DOMAIN pipe :
           pipe[k] = LineOf(client[written[Len(written) - Len(pipe) + k]].request)
  BY DEF OrderInv, Unwritten
<1>2. /\ \A k \in DOMAIN written : written[k] \in Clients
      /\ Len(written) \in Nat /\ DOMAIN written = 1 .. Len(written)
      /\ Len(pipe) \in Nat /\ DOMAIN pipe = 1 .. Len(pipe) /\ Len(<<>>) = 0 /\ DOMAIN <<>> = {}
  BY <1>1, LenProperties DEF LineInv
<1>3. \A c \in Clients : client'[c].request = client[c].request
  BY DEF Kept
<1>4. \A k \in DOMAIN written : PC(written[k])' \notin Unwritten
  <2> SUFFICES ASSUME NEW k \in DOMAIN written PROVE PC(written[k])' \notin Unwritten
    OBVIOUS
  <2>1. written[k] \in Clients /\ written'[k] = written[k]
    BY <1>2
  <2>2. PC(written[k])' = client'[written[k]].pc /\ \A c \in Clients : PC(c)' = client'[c].pc
    BY <2>1 DEF PC
  <2> QED
    BY <1>1, <2>1, <2>2
<1>5. \A k \in DOMAIN pipe' :
        pipe'[k] = LineOf(client'[written[Len(written) - Len(pipe') + k]].request)
  <2>1. CASE pipe' = <<>>
    BY <1>2, <2>1
  <2>2. CASE pipe' = pipe
    <3>1. \A k \in DOMAIN pipe : Len(written) - Len(pipe) + k \in DOMAIN written
      BY <1>1, <1>2
    <3> QED
      BY <1>1, <1>2, <1>3, <2>2, <3>1
  <2> QED
    BY <2>1, <2>2
<1>6. PICK at \in [Known -> DOMAIN written] : Order(at)
  BY DEF OrderInv
<1>7. Known' = Known
  BY DEF Known
<1>8. Order(at)'
  <2>1. \A k \in Known : enqueued[k] = client'[written[at[k]]].request
    BY <1>2, <1>3, <1>6 DEF Order
  <2>2. \A k \in Known : at[k] <= Len(written) - Len(pipe')
    BY <1>2, <1>6 DEF Order
  <2>3. main'.pc = "put" /\ main'.buffer # Blank =>
          \E b \in 1 .. Len(written) - Len(pipe') :
            /\ main'.buffer = LineOf(client'[written[b]].request)
            /\ \A k \in Known : at[k] < b
    <3>1. \A b \in 1 .. Len(written) - Len(pipe) : b \in DOMAIN written
      BY <1>1, <1>2
    <3> QED
      BY <1>2, <1>3, <1>6, <3>1 DEF Order
  <2> QED
    BY <1>6, <1>7, <2>1, <2>2, <2>3 DEF Order
<1>9. \E p \in [Known -> DOMAIN written] : Order(p)'
  BY <1>6, <1>8
<1> QED
  BY <1>1, <1>2, <1>4, <1>5, <1>7, <1>9 DEF OrderInv, Unwritten

(* What is written is behind all that was. *)
LEMMA OrderWrite ==
  ASSUME ClientInv, LineInv, TaskInv, OrderInv, Kept, NEW c \in Clients, ClientWrite(c)
  PROVE  OrderInv'
<1> DEFINE n == Len(written)
           p == Len(pipe)
<1>1. /\ written \in Seq(Clients) /\ p <= n
      /\ \A k \in DOMAIN written : PC(written[k]) \notin Unwritten
      /\ \A j, k \in DOMAIN written : written[j] = written[k] => j = k
      /\ \A k \in DOMAIN pipe : pipe[k] = LineOf(client[written[n - p + k]].request)
  BY DEF OrderInv, Unwritten
<1>2. /\ \A k \in DOMAIN written : written[k] \in Clients
      /\ n \in Nat /\ DOMAIN written = 1 .. n /\ p \in Nat /\ DOMAIN pipe = 1 .. p
  BY <1>1, LenProperties DEF LineInv
<1>3. \A d \in Clients : client'[d].request = client[d].request
  BY DEF Kept
<1>4. written' = Append(written, c) /\ pipe' = Append(pipe, LineOf(client[c].request))
      /\ UNCHANGED <<main, enqueued>>
  BY DEF ClientWrite, LineOf, Code, server
<1>5. Moves(c, "opened", "written")
  BY StepMoves DEF ClientInv, ClientWrite
<1>6. /\ written' \in Seq(Clients) /\ Len(written') = n + 1 /\ DOMAIN written' = 1 .. n + 1
      /\ (\A k \in 1 .. n : written'[k] = written[k]) /\ written'[n + 1] = c
      /\ Len(pipe') = p + 1 /\ DOMAIN pipe' = 1 .. p + 1
      /\ (\A k \in 1 .. p : pipe'[k] = pipe[k]) /\ pipe'[p + 1] = LineOf(client[c].request)
  <2>1. /\ written' \in Seq(Clients) /\ Len(written') = n + 1 /\ DOMAIN written' = 1 .. n + 1
        /\ (\A k \in 1 .. n : written'[k] = written[k]) /\ written'[n + 1] = c
    BY <1>1, <1>2, <1>4, AppendProperties, LenProperties
  <2>2. /\ Len(pipe') = p + 1 /\ DOMAIN pipe' = 1 .. p + 1
        /\ (\A k \in 1 .. p : pipe'[k] = pipe[k]) /\ pipe'[p + 1] = LineOf(client[c].request)
    <3>1. PICK S : pipe \in Seq(S)
      BY DEF LineInv
    <3>2. pipe \in Seq(S \cup {LineOf(client[c].request)})
      BY <3>1, SeqMonotonic
    <3> QED
      BY <1>2, <1>4, <3>2, AppendProperties, LenProperties
  <2> QED
    BY <2>1, <2>2
<1> HIDE DEF n, p
<1>7. \A k \in DOMAIN written' : client'[written'[k]].pc \notin Unwritten
  <2> SUFFICES ASSUME NEW k \in 1 .. n + 1 PROVE client'[written'[k]].pc \notin Unwritten
    BY <1>6
  <2>1. CASE k = n + 1
    <3>1. written'[k] = c /\ PC(c)' = "written"
      BY <1>5, <1>6, <2>1 DEF Moves
    <3> QED
      BY <3>1 DEF Unwritten, PC
  <2>2. CASE k \in 1 .. n
    <3>1. written'[k] = written[k] /\ PC(written[k]) \notin Unwritten /\ written[k] \in Clients
      BY <1>1, <1>2, <1>6, <2>2
    <3>2. written[k] # c
      BY <1>5, <3>1 DEF Moves, Unwritten
    <3>3. PC(written[k]) = client[written[k]].pc
      BY DEF PC
    <3>4. \A d \in Clients \ {c} : client'[d].pc = client[d].pc
      BY <1>5 DEF Moves, PC
    <3> QED
      BY <3>1, <3>2, <3>3, <3>4
  <2> QED
    BY <1>2, <2>1, <2>2
<1>8. \A j, k \in 1 .. n + 1 : written'[j] = written'[k] => j = k
  <2>1. \A k \in 1 .. n : written'[k] # c
    BY <1>1, <1>2, <1>5, <1>6 DEF Moves, Unwritten
  <2>2. 1 .. n + 1 = (1 .. n) \cup {n + 1}
    BY <1>2
  <2>3. written'[n + 1] = c /\ \A j, k \in 1 .. n : written'[j] = written'[k] => j = k
    BY <1>1, <1>2, <1>6
  <2> QED
    BY <2>1, <2>2, <2>3
<1>9. \A k \in 1 .. p + 1 : pipe'[k] = LineOf(client'[written'[Len(written') - Len(pipe') + k]].request)
  <2> SUFFICES ASSUME NEW k \in 1 .. p + 1
               PROVE  pipe'[k] = LineOf(client'[written'[Len(written') - Len(pipe') + k]].request)
    OBVIOUS
  <2>1. Len(written') - Len(pipe') + k = n - p + k
    <3>1. Len(written') = n + 1 /\ Len(pipe') = p + 1
      BY <1>6
    <3> QED
      BY <1>2, <3>1
  <2>2. CASE k = p + 1
    <3>1. n - p + k = n + 1
      BY <1>2, <2>2
    <3> QED
      BY <1>3, <1>6, <2>1, <2>2, <3>1
  <2>3. CASE k \in 1 .. p
    <3>1. n - p + k \in 1 .. n
      BY <1>1, <1>2, <2>3
    <3>2. pipe'[k] = LineOf(client[written[n - p + k]].request)
      BY <1>1, <1>2, <1>6, <2>3
    <3>3. written'[n - p + k] = written[n - p + k] /\ written[n - p + k] \in Clients
      BY <1>2, <1>6, <3>1
    <3> QED
      BY <1>3, <2>1, <3>2, <3>3
  <2> QED
    BY <1>2, <2>2, <2>3
<1>10. PICK at \in [Known -> DOMAIN written] : Order(at)
  BY DEF OrderInv
<1>11. Known' = Known /\ at \in [Known -> DOMAIN written'] /\ n + 1 - (p + 1) = n - p
  BY <1>2, <1>4, <1>6, <1>10 DEF Known
<1>12. Order(at)'
  <2>1. \A k \in Known : enqueued[k] = client'[written'[at[k]]].request
    BY <1>2, <1>3, <1>6, <1>10 DEF Order
  <2>2. main.pc = "put" /\ main.buffer # Blank =>
          \E b \in 1 .. n - p :
            /\ main.buffer = LineOf(client'[written'[b]].request)
            /\ \A k \in Known : at[k] < b
    <3>1. \A b \in 1 .. n - p : b \in 1 .. n
      BY <1>1, <1>2
    <3>2. \A b \in 1 .. n : client'[written'[b]].request = client[written[b]].request
      BY <1>2, <1>3, <1>6
    <3> QED
      BY <1>10, <3>1, <3>2 DEF Order, n, p
  <2>3. \A k \in Known : at[k] <= n - p
    BY <1>10 DEF Order, n, p
  <2>4. \A j, k \in Known : j < k => at[j] < at[k]
    BY <1>10 DEF Order
  <2>5. Len(written') - Len(pipe') = n - p
    <3>1. Len(written') = n + 1 /\ Len(pipe') = p + 1
      BY <1>6
    <3> QED
      BY <1>2, <3>1
  <2> QED
    BY <1>4, <1>11, <2>1, <2>2, <2>3, <2>4, <2>5 DEF Order
<1>13. \E q \in [Known' -> DOMAIN written'] : Order(q)'
  BY <1>11, <1>12
<1>14. p + 1 <= n + 1
  BY <1>1, <1>2
<1>15. written' \in Seq(Clients) /\ Len(pipe') <= Len(written')
  BY <1>6, <1>14
<1>16. \A j, k \in DOMAIN written' : written'[j] = written'[k] => j = k
  BY <1>6, <1>8
<1> QED
  BY <1>6, <1>7, <1>9, <1>13, <1>15, <1>16 DEF OrderInv, Unwritten, PC

(* The line main reads is the oldest that is there. *)
LEMMA OrderRead ==
  ASSUME ClientInv, LineInv, TaskInv, OrderInv, MainRead
  PROVE  OrderInv'
<1> DEFINE n == Len(written)
           p == Len(pipe)
<1>1. /\ written \in Seq(Clients) /\ p <= n
      /\ \A k \in DOMAIN written : PC(written[k]) \notin Unwritten
      /\ \A j, k \in DOMAIN written : written[j] = written[k] => j = k
      /\ \A k \in DOMAIN pipe : pipe[k] = LineOf(client[written[n - p + k]].request)
  BY DEF OrderInv, Unwritten
<1>2. n \in Nat /\ DOMAIN written = 1 .. n /\ p \in Nat /\ DOMAIN pipe = 1 .. p
  BY <1>1, LenProperties DEF LineInv
<1>3. /\ UNCHANGED <<written, enqueued, client>> /\ main.pc = "read"
      /\ main' = [pc |-> "put", buffer |-> IF pipe = <<>> THEN main.buffer ELSE Head(pipe)]
      /\ pipe' = IF pipe = <<>> THEN pipe ELSE Tail(pipe)
  BY DEF MainRead, history
<1>4. PICK at \in [Known -> DOMAIN written] : Order(at)
  BY DEF OrderInv
<1>5. Known' = Known
  BY <1>3 DEF Known
<1>6. \A k \in DOMAIN written : PC(written[k])' \notin Unwritten
  BY <1>1, <1>3 DEF PC
<1>7. CASE pipe = <<>>
  <2>1. main'.buffer = Blank /\ pipe' = pipe
    BY <1>3, <1>7 DEF LineInv
  <2>2. Order(at)'
    BY <1>3, <1>4, <1>5, <2>1 DEF Order
  <2>3. \E q \in [Known -> DOMAIN written] : Order(q)'
    BY <1>4, <2>2
  <2> QED
    BY <1>1, <1>3, <1>5, <1>6, <2>1, <2>3 DEF OrderInv, Unwritten
<1>8. CASE pipe # <<>>
  <2>1. /\ p > 0 /\ Len(pipe') = p - 1 /\ DOMAIN pipe' = 1 .. p - 1
        /\ \A k \in 1 .. p - 1 : pipe'[k] = pipe[k + 1]
        /\ main'.buffer = pipe[1]
    <3>1. PICK S : pipe \in Seq(S)
      BY DEF LineInv
    <3>2. Head(pipe) = pipe[1] /\ main'.buffer = Head(pipe) /\ pipe' = Tail(pipe)
      BY <1>3, <1>8
    <3>3. p \in Nat \ {0}
      BY <1>8, <3>1, EmptySeq
    <3> QED
      BY <1>8, <3>1, <3>2, <3>3, HeadTailProperties, LenProperties
  <2> HIDE DEF n, p
  <2>2. n - (p - 1) = n - p + 1 /\ n - p + 1 \in 1 .. n
    BY <1>1, <1>2, <2>1
  <2>3. \A k \in 1 .. p - 1 : pipe'[k] = LineOf(client[written[n - (p - 1) + k]].request)
    <3> SUFFICES ASSUME NEW k \in 1 .. p - 1
                 PROVE  pipe'[k] = LineOf(client[written[n - (p - 1) + k]].request)
      OBVIOUS
    <3>1. k + 1 \in 1 .. p /\ n - p + (k + 1) = n - (p - 1) + k
      BY <1>2
    <3> QED
      BY <1>1, <1>2, <2>1, <3>1
  <2>4. main'.buffer = LineOf(client[written[n - p + 1]].request)
    BY <1>1, <1>2, <2>1
  <2>5. \A k \in Known : at[k] \in Nat /\ at[k] <= n - p
    BY <1>2, <1>4 DEF Order, n, p
  <2>6. \A k \in Known : at[k] <= n - (p - 1) /\ at[k] < n - p + 1
    BY <1>2, <2>2, <2>5
  <2>7. Order(at)'
    <3>1. \E b \in 1 .. n - (p - 1) :
             /\ main'.buffer = LineOf(client[written[b]].request)
             /\ \A k \in Known : at[k] < b
      <4>1. n - p + 1 \in 1 .. n - (p - 1)
        BY <1>2, <2>2
      <4> QED
        BY <2>4, <2>6, <4>1
    <3>2. (\A k \in Known : enqueued[k] = client[written[at[k]]].request)
          /\ (\A j, k \in Known : j < k => at[j] < at[k])
      BY <1>4 DEF Order
    <3> QED
      BY <1>3, <1>5, <2>1, <2>6, <3>1, <3>2 DEF Order, n
  <2>8. \E q \in [Known -> DOMAIN written] : Order(q)'
    BY <1>4, <2>7
  <2>9. p - 1 <= n
    BY <1>1, <1>2
  <2> QED
    BY <1>1, <1>3, <1>5, <1>6, <2>1, <2>3, <2>8, <2>9 DEF OrderInv, Unwritten, n
<1> QED
  BY <1>7, <1>8

(* The request main queues is the one whose line it has read, and was      *)
(* written after all that are queued.                                      *)
LEMMA OrderPut ==
  ASSUME ClientInv, LineInv, TaskInv, OrderInv, MainPut
  PROVE  OrderInv'
<1> DEFINE n == Len(written)
           p == Len(pipe)
           m == Len(enqueued)
           r == reader_stc(main.buffer)
<1>1. /\ written \in Seq(Clients) /\ p <= n
      /\ \A k \in DOMAIN written : PC(written[k]) \notin Unwritten
      /\ \A j, k \in DOMAIN written : written[j] = written[k] => j = k
      /\ \A k \in DOMAIN pipe : pipe[k] = LineOf(client[written[n - p + k]].request)
  BY DEF OrderInv, Unwritten
<1>2. /\ \A k \in DOMAIN written : written[k] \in Clients
      /\ n \in Nat /\ DOMAIN written = 1 .. n /\ p \in Nat /\ m \in Nat /\ DOMAIN enqueued = 1 .. m
  BY <1>1, LenProperties DEF LineInv, TaskInv
<1>3. /\ UNCHANGED <<written, pipe, client>> /\ main.pc = "put" /\ main'.pc = "close"
      /\ enqueued' = Append(enqueued, r)
  BY DEF MainPut, LineInv
<1>4. /\ DOMAIN enqueued' = 1 .. m + 1 /\ enqueued'[m + 1] = r
      /\ \A k \in 1 .. m : enqueued'[k] = enqueued[k]
  <2>1. r \in Asked \cup {Nothing} /\ enqueued \in Seq(Asked \cup {Nothing})
    BY BufferReads DEF TaskInv
  <2> HIDE DEF r
  <2> QED
    BY <1>2, <1>3, <2>1, AppendProperties, LenProperties
<1>5. PICK at \in [Known -> DOMAIN written] : Order(at)
  BY DEF OrderInv
<1>6. \A k \in Known : k \in 1 .. m /\ at[k] \in 1 .. n /\ enqueued[k] = client[written[at[k]]].request
  BY <1>2, <1>5 DEF Order, Known
<1>7. \A j, k \in Known : j < k => at[j] < at[k]
  BY <1>5 DEF Order
<1>8. \A k \in Known : at[k] <= n - p
  BY <1>5 DEF Order
<1>9. SUFFICES \E q \in [Known' -> DOMAIN written] : Order(q)'
  BY <1>1, <1>3 DEF OrderInv, Unwritten, PC
<1> HIDE DEF n, p, m, r
<1>10. CASE main.buffer = Blank
  <2>1. Plain(r).code \notin Handled
    BY <1>10, NothingIs DEF Nothing, r
  <2>2. Known' = Known
    BY <1>2, <1>4, <2>1 DEF Known
  <2>3. Order(at)'
    BY <1>3, <1>4, <1>6, <1>7, <1>8, <2>2 DEF Order, n, p
  <2> QED
    BY <1>5, <2>2, <2>3
<1>11. CASE main.buffer # Blank
  <2>1. PICK b \in 1 .. n - p : /\ main.buffer = LineOf(client[written[b]].request)
                                /\ \A k \in Known : at[k] < b
    BY <1>3, <1>5, <1>11 DEF Order, n, p
  <2>2. b \in 1 .. n /\ b <= n - p
    BY <1>1, <1>2
  <2>3. client[written[b]].request \in Asked
    <3>1. written[b] \in Clients /\ PC(written[b]) # "absent"
      BY <1>1, <1>2, <2>2 DEF Unwritten
    <3>2. client[written[b]].request # NoRequest
      BY <3>1 DEF ClientInv
    <3> QED
      BY <3>1, <3>2 DEF Asked
  <2>4. r = client[written[b]].request /\ Plain(r).code \in Handled
    BY <2>1, <2>3, BufferReads DEF r
  <2>5. Known' = Known \cup {m + 1} /\ m + 1 \notin Known
    <3>1. m + 1 \notin 1 .. m /\ 1 .. m + 1 = (1 .. m) \cup {m + 1}
      BY <1>2
    <3> QED
      BY <1>2, <1>4, <2>4, <3>1 DEF Known
  <2>6. PICK q \in [Known' -> DOMAIN written] :
          q = [k \in Known' |-> IF k = m + 1 THEN b ELSE at[k]]
    <3>1. [k \in Known' |-> IF k = m + 1 THEN b ELSE at[k]] \in [Known' -> DOMAIN written]
      BY <1>2, <1>6, <2>2, <2>5
    <3> QED
      BY <3>1
  <2>7. q[m + 1] = b /\ \A k \in Known : q[k] = at[k]
    BY <2>5, <2>6
  <2>8. \A k \in Known' : enqueued'[k] = client[written[q[k]]].request
    BY <1>4, <1>6, <2>4, <2>5, <2>7
  <2>9. \A j, k \in Known' : j < k => q[j] < q[k]
    <3> SUFFICES ASSUME NEW j \in Known', NEW k \in Known', j < k PROVE q[j] < q[k]
      OBVIOUS
    <3>1. j # m + 1
      BY <1>2, <1>6, <2>5
    <3> QED
      BY <1>7, <2>1, <2>5, <2>7, <3>1
  <2>10. \A k \in Known' : q[k] <= n - p
    BY <1>8, <2>2, <2>5, <2>7
  <2>11. Order(q)'
    BY <1>3, <2>8, <2>9, <2>10 DEF Order, n, p
  <2> QED
    BY <2>11
<1> QED
  BY <1>10, <1>11

(* No step puts the requests out of order.                                  *)
LEMMA OrderNext ==
  ASSUME ClientInv, LineInv, TaskInv, OrderInv, Kept, FifoStep
  PROVE  OrderInv'
<1>1. client \in [Clients -> ClientRecord]
  BY DEF ClientInv
<1>2. ASSUME NEW c \in Clients, ClientOpen(c) \/ ClientKilled(c) \/ ClientClose(c)
      PROVE  OrderInv'
  <2>1. /\ UNCHANGED <<written, enqueued>> /\ pipe' \in {pipe, <<>>}
        /\ main'.pc = "put" => main' = main /\ pipe' = pipe
    <3>1. CASE ClientOpen(c)
      BY <3>1 DEF ClientOpen, LineInv
    <3>2. CASE ClientKilled(c)
      BY <3>2 DEF ClientKilled, MainHas, server, Left
    <3>3. CASE ClientClose(c)
      BY <3>3 DEF ClientClose, MainHas, server, Left
    <3> QED
      BY <1>2, <3>1, <3>2, <3>3
  <2>2. PICK from \in {"start", "opened", "written"}, to \in {"opening", "opened", "killed", "reply"} :
          Moves(c, from, to) /\ (from = "written" => to = "reply")
    <3>1. CASE ClientOpen(c)
      BY <1>1, <3>1, StepMoves DEF ClientOpen
    <3>2. CASE ClientKilled(c)
      BY <1>1, <3>2, StepMoves DEF ClientKilled
    <3>3. CASE ClientClose(c)
      BY <1>1, <3>3, StepMoves DEF ClientClose
    <3> QED
      BY <1>2, <3>1, <3>2, <3>3
  <2>3. \A d \in Clients : PC(d) \notin Unwritten => PC(d)' \notin Unwritten
    BY <2>2 DEF Moves, Unwritten
  <2> QED
    BY <2>1, <2>3, OrderStays
<1>3. ASSUME NEW c \in Clients, ClientWrite(c)
      PROVE  OrderInv'
  BY <1>3, OrderWrite
<1>4. CASE MainOpen
  <2>1. /\ UNCHANGED <<written, enqueued, pipe>> /\ main'.pc # "put"
    BY <1>4 DEF MainOpen, LineInv, history
  <2>2. \A d \in Clients : PC(d) \notin Unwritten => PC(d)' \notin Unwritten
    <3> SUFFICES ASSUME NEW d \in Clients, PC(d) \notin Unwritten PROVE PC(d)' \notin Unwritten
      OBVIOUS
    <3>1. client'[d] = IF PC(d) = "opening" THEN [client[d] EXCEPT !.pc = "opened"] ELSE client[d]
      BY <1>4 DEF MainOpen
    <3> QED
      BY <3>1 DEF PC, Unwritten
  <2> QED
    BY <2>1, <2>2, OrderStays
<1>5. CASE MainRead
  BY <1>5, OrderRead
<1>6. CASE MainPut
  BY <1>6, OrderPut
<1>7. CASE MainClose
  BY <1>7, OrderStays DEF MainClose, Left, history, PC
<1>8. CASE Settles
  BY <1>8, OrderStays DEF Settles, Unwritten
<1>9. CASE Ends
  BY <1>9, OrderStays DEF Ends, End, history, PC
<1> QED
  BY <1>2, <1>3, <1>4, <1>5, <1>6, <1>7, <1>8, <1>9 DEF FifoStep

-----------------------------------------------------------------------------
(***************************************************************************)
(* Who is alone at the FIFO.                                               *)
(***************************************************************************)
Written(c) == \E k \in DOMAIN written : written[k] = c
Mine(c) == LineOf(client[c].request)

(* Where the request of a client may be, before and after a step. *)
LEMMA WhereIs ==
  ASSUME Kept, NEW c \in Clients
  PROVE  /\ InPipe(c) <=> \E k \in DOMAIN pipe : pipe[k] = Mine(c)
         /\ InPipe(c)' <=> \E k \in DOMAIN pipe' : pipe'[k] = Mine(c)
         /\ InBuffer(c) <=> main.pc = "put" /\ main.buffer = Mine(c)
         /\ InBuffer(c)' <=> main'.pc = "put" /\ main'.buffer = Mine(c)
         /\ Enqueued(c) <=> \E k \in DOMAIN enqueued : enqueued[k] = client[c].request
         /\ Enqueued(c)' <=> \E k \in DOMAIN enqueued' : enqueued'[k] = client[c].request
         /\ Lost(c) <=> Written(c) /\ ~InPipe(c) /\ ~InBuffer(c) /\ ~Enqueued(c)
         /\ Lost(c)' <=> Written(c)' /\ ~InPipe(c)' /\ ~InBuffer(c)' /\ ~Enqueued(c)'
         /\ Mine(c)' = Mine(c)
<1>1. client'[c].request = client[c].request
  BY DEF Kept
<1>2. writer_stc(client[c].request, Code(c)) = Mine(c)
      /\ writer_stc(client'[c].request, Code(c)') = Mine(c) /\ Mine(c)' = Mine(c)
  BY <1>1 DEF Mine, LineOf, Code
<1>3. /\ InPipe(c) <=> \E k \in DOMAIN pipe : pipe[k] = Mine(c)
      /\ InPipe(c)' <=> \E k \in DOMAIN pipe' : pipe'[k] = Mine(c)
  BY <1>2 DEF InPipe
<1>4. /\ InBuffer(c) <=> main.pc = "put" /\ main.buffer = Mine(c)
      /\ InBuffer(c)' <=> main'.pc = "put" /\ main'.buffer = Mine(c)
  BY <1>2 DEF InBuffer
<1>5. /\ Enqueued(c) <=> \E k \in DOMAIN enqueued : enqueued[k] = client[c].request
      /\ Enqueued(c)' <=> \E k \in DOMAIN enqueued' : enqueued'[k] = client[c].request
  BY <1>1 DEF Enqueued
<1>6. /\ Lost(c) <=> Written(c) /\ ~InPipe(c) /\ ~InBuffer(c) /\ ~Enqueued(c)
      /\ Lost(c)' <=> Written(c)' /\ ~InPipe(c)' /\ ~InBuffer(c)' /\ ~Enqueued(c)'
  BY DEF Lost, Written
<1> QED
  BY <1>2, <1>3, <1>4, <1>5, <1>6

(* Two clients do not write one line. *)
LEMMA OwnLine ==
  ASSUME ClientInv, NEW c \in Clients, NEW d \in Clients, PC(c) # "absent", PC(d) # "absent",
         Mine(c) = Mine(d)
  PROVE  c = d
<1>1. client[c].request \in Asked /\ client[d].request \in Asked /\ client[d].request # NoRequest
      /\ client[c].request # NoRequest
  BY DEF ClientInv, Asked
<1>2. IsRequest(client[c].request) /\ IsRequest(client[d].request)
  BY <1>1 DEF ClientInv
<1>3. client[c].request = client[d].request
  BY <1>2, RequestReads DEF Mine
<1> QED
  BY <1>1, <1>3 DEF ClientInv

(* While one client is about to open or to write, it is the one that is    *)
(* alone, if any is.                                                       *)
LEMMA AloneThere ==
  ASSUME LineInv, NEW c \in Clients, Alone(c), NEW d \in Clients \ {c},
         PC(d) \in {"opening", "opened", "written"}
  PROVE  PC(c) \notin {"opening", "opened"}
BY DEF LineInv, Alone

(* A client that is not at the FIFO stays as it is when nothing moves      *)
(* there that is its own.                                                  *)
LEMMA AloneStays ==
  ASSUME Kept, NEW c \in Clients, Alone(c),
         PC(c)' \notin {"opening", "opened", "killed"},
         Written(c)' => Written(c),
         PC(c) # "absent" /\ InPipe(c)' =>
           InPipe(c) /\ main'.pc = main.pc /\ Head(pipe') = Head(pipe),
         Written(c) => (InPipe(c) => InPipe(c)' \/ InBuffer(c)'),
         InBuffer(c) => InBuffer(c)' \/ Enqueued(c)',
         Enqueued(c) => Enqueued(c)'
  PROVE  Alone(c)'
<1>1. ~Lost(c)'
  BY WhereIs DEF Alone
<1>2. PC(c)' = "absent" <=> PC(c) = "absent"
  BY DEF Kept, PC
<1>3. LineOf(client[c].request)' = LineOf(client[c].request)
  BY WhereIs DEF Mine
<1> QED
  BY <1>1, <1>2, <1>3 DEF Alone

(* Who opens an idle FIFO is alone there; the others stay as they are.      *)
LEMMA AloneOpen ==
  ASSUME ClientInv, LineInv, OrderInv, Kept, NEW d \in Clients, ClientOpen(d),
         NEW c \in Clients, c \notin crowded', Alone(c)
  PROVE  Alone(c)'
<1>1. Moves(d, "start", IF MainHas THEN "opened" ELSE "opening")
  BY StepMoves DEF ClientInv, ClientOpen
<1>2. /\ writers' = writers \cup {d} /\ UNCHANGED <<pipe, written, enqueued>>
      /\ main' = [main EXCEPT !.pc = IF @ = "opening" THEN "read" ELSE @]
      /\ crowded' = IF main.pc \in {"put", "close"} \/ writers # {} \/ pipe # <<>>
                      THEN crowded \cup writers \cup {d} ELSE crowded
  BY DEF ClientOpen
<1>3. /\ main.pc \in {"open", "opening", "read", "put", "close"} /\ main'.buffer = main.buffer
      /\ main'.pc = IF main.pc = "opening" THEN "read" ELSE main.pc
      /\ main.pc = "opening" => pipe = <<>>
      /\ writers = {x \in Clients : PC(x) \in {"opening", "opened", "written"}}
  BY <1>2 DEF LineInv
<1>4. /\ InPipe(c)' <=> InPipe(c)
      /\ InBuffer(c)' <=> InBuffer(c)
      /\ Enqueued(c)' <=> Enqueued(c)
      /\ Written(c)' <=> Written(c)
  BY <1>2, <1>3, WhereIs DEF Written
<1>5. InPipe(c)' => main'.pc = main.pc
  BY <1>2, <1>3, WhereIs
<1>6. CASE c = d
  <2>1. main.pc \in {"open", "opening", "read"} /\ writers = {} /\ pipe = <<>>
    BY <1>2, <1>3, <1>6
  <2>2. PC(d)' = IF MainHas THEN "opened" ELSE "opening"
    BY <1>1 DEF Moves
  <2>3. ~InPipe(c)'
    BY <1>2, <2>1, WhereIs
  <2>4. ~Lost(c)'
    BY <1>4, WhereIs DEF Alone
  <2> QED
    BY <1>2, <1>3, <1>6, <2>1, <2>2, <2>3, <2>4 DEF Alone, MainHas
<1>7. CASE c # d
  <2>1. PC(c)' = PC(c)
    BY <1>1, <1>7 DEF Moves
  <2>2. PC(c) \notin {"opening", "opened", "killed"}
    BY <1>2, <1>3 DEF Alone
  <2> QED
    BY <1>2, <1>4, <1>5, <2>1, <2>2, AloneStays
<1> QED
  BY <1>6, <1>7

(* Who writes alone has its line at the head, and main reading.             *)
LEMMA AloneWrite ==
  ASSUME ClientInv, LineInv, OrderInv, Kept, NEW d \in Clients, ClientWrite(d),
         NEW c \in Clients, Alone(c)
  PROVE  Alone(c)'
<1>1. Moves(d, "opened", "written")
  BY StepMoves DEF ClientInv, ClientWrite
<1>2. /\ written' = Append(written, d) /\ pipe' = Append(pipe, Mine(d))
      /\ UNCHANGED <<main, enqueued, writers>>
  BY DEF ClientWrite, Mine, LineOf, Code, server
<1>3. /\ DOMAIN pipe' = 1 .. Len(pipe) + 1 /\ DOMAIN pipe = 1 .. Len(pipe) /\ Len(pipe) \in Nat
      /\ (\A k \in 1 .. Len(pipe) : pipe'[k] = pipe[k]) /\ pipe'[Len(pipe) + 1] = Mine(d)
      /\ Head(pipe') = pipe'[1] /\ (pipe # <<>> => Head(pipe) = pipe[1] /\ Len(pipe) > 0)
      /\ (pipe = <<>> => Len(pipe) = 0)
  <2>1. PICK S : pipe \in Seq(S)
    BY DEF LineInv
  <2>2. pipe \in Seq(S \cup {Mine(d)}) /\ Len(pipe) \in Nat /\ DOMAIN pipe = 1 .. Len(pipe)
    BY <2>1, SeqMonotonic, LenProperties
  <2>3. pipe' \in Seq(S \cup {Mine(d)}) /\ Len(pipe') = Len(pipe) + 1 /\ pipe'[Len(pipe) + 1] = Mine(d)
        /\ DOMAIN pipe' = 1 .. Len(pipe) + 1
        /\ (\A k \in 1 .. Len(pipe) : pipe'[k] = pipe[k])
    BY <1>2, <2>2, AppendProperties, LenProperties
  <2>4. Head(pipe') = pipe'[1]
    BY <2>2, <2>3
  <2>5. pipe # <<>> => Head(pipe) = pipe[1] /\ Len(pipe) > 0
    BY <2>1, <2>2, EmptySeq
  <2>6. pipe = <<>> => Len(pipe) = 0
    OBVIOUS
  <2> QED
    BY <2>2, <2>3, <2>4, <2>5, <2>6
<1>4. CASE c = d
  <2>1. pipe = <<>> /\ main.pc = "read"
    BY <1>1, <1>4 DEF Moves, Alone
  <2>2. Head(pipe') = Mine(c) /\ InPipe(c)'
    BY <1>3, <1>4, <2>1, WhereIs
  <2>3. PC(c)' = "written" /\ ~Lost(c)' /\ Mine(c)' = Mine(c)
    BY <1>1, <1>4, <2>2, WhereIs DEF Moves
  <2> QED
    BY <1>2, <2>1, <2>2, <2>3 DEF Alone, Mine
<1>5. CASE c # d
  <2>1. PC(c)' = PC(c) /\ PC(d) = "opened"
    BY <1>1, <1>5 DEF Moves
  <2>2. PC(c) \notin {"opening", "opened", "killed"}
    BY <1>5, <2>1, AloneThere DEF Alone
  <2>3. Written(c)' => Written(c)
    <3>1. /\ DOMAIN written' = 1 .. Len(written) + 1 /\ DOMAIN written = 1 .. Len(written)
          /\ (\A k \in 1 .. Len(written) : written'[k] = written[k])
          /\ written'[Len(written) + 1] = d /\ Len(written) \in Nat
      BY <1>2, AppendProperties, LenProperties DEF OrderInv
    <3> QED
      BY <1>5, <3>1 DEF Written
  <2>4. InPipe(c) => InPipe(c)'
    BY <1>3, WhereIs
  <2>5. ASSUME PC(c) # "absent", InPipe(c)'
        PROVE  InPipe(c) /\ Head(pipe') = Head(pipe)
    <3>1. PICK k \in 1 .. Len(pipe) + 1 : pipe'[k] = Mine(c)
      BY <1>3, <2>5, WhereIs
    <3>2. Mine(c) # Mine(d)
      BY <1>5, <2>1, <2>5, OwnLine
    <3>3. k \in 1 .. Len(pipe) /\ pipe[k] = Mine(c)
      BY <1>3, <3>1, <3>2
    <3>4. InPipe(c) /\ pipe # <<>>
      BY <1>3, <3>3, WhereIs
    <3> QED
      BY <1>3, <3>4
  <2>6. (InBuffer(c)' <=> InBuffer(c)) /\ (Enqueued(c)' <=> Enqueued(c))
    BY <1>2, WhereIs
  <2> QED
    BY <1>2, <2>1, <2>2, <2>3, <2>4, <2>5, <2>6, AloneStays
<1> QED
  BY <1>4, <1>5

(* What is lost with the FIFO is not the line of a client that was alone:  *)
(* main was to read that.                                                  *)
LEMMA AloneLeft ==
  ASSUME ClientInv, LineInv, OrderInv, Kept,
         UNCHANGED <<written, enqueued>>, pipe' \in {pipe, <<>>},
         main.pc # "put", main'.pc # "put", main.pc = "read" => main'.pc = "read" /\ pipe' = pipe,
         NEW c \in Clients, Alone(c), PC(c)' \notin {"opening", "opened", "killed"}
  PROVE  Alone(c)'
<1>1. Written(c)' <=> Written(c)
  BY DEF Written
<1>2. PC(c) # "absent" /\ InPipe(c) => main.pc = "read"
  BY DEF Alone
<1>3. InPipe(c)' => InPipe(c)
  <2>1. DOMAIN <<>> = {}
    OBVIOUS
  <2> QED
    BY <2>1, WhereIs
<1>4. InPipe(c) /\ main.pc = "read" => InPipe(c)'
  BY WhereIs
<1>5. (InBuffer(c)' <=> InBuffer(c)) /\ (Enqueued(c)' <=> Enqueued(c))
  BY WhereIs
<1>6. Written(c) => PC(c) # "absent"
  BY DEF OrderInv, Written
<1> QED
  BY <1>1, <1>2, <1>3, <1>4, <1>5, <1>6, AloneStays

(* The line of a client that is alone is the one main reads.               *)
LEMMA AloneRead ==
  ASSUME ClientInv, LineInv, OrderInv, Kept, MainRead, NEW c \in Clients, Alone(c)
  PROVE  Alone(c)'
<1>1. /\ UNCHANGED <<written, enqueued, client>> /\ main.pc = "read"
      /\ pipe # <<>> \/ writers = {}
      /\ main' = [pc |-> "put", buffer |-> IF pipe = <<>> THEN main.buffer ELSE Head(pipe)]
      /\ pipe' = IF pipe = <<>> THEN pipe ELSE Tail(pipe)
  BY DEF MainRead, history
<1>2. PC(c)' = PC(c) /\ PC(c) \notin {"opening", "opened", "killed"}
  BY <1>1 DEF Alone, PC
<1>3. /\ DOMAIN pipe = 1 .. Len(pipe) /\ Len(pipe) \in Nat
      /\ pipe # <<>> => /\ 1 \in DOMAIN pipe /\ Head(pipe) = pipe[1] /\ DOMAIN pipe' = 1 .. Len(pipe) - 1
                        /\ \A k \in 1 .. Len(pipe) - 1 : pipe'[k] = pipe[k + 1]
  <2>1. PICK S : pipe \in Seq(S)
    BY DEF LineInv
  <2>2. DOMAIN pipe = 1 .. Len(pipe) /\ Len(pipe) \in Nat
    BY <2>1, LenProperties
  <2>3. pipe # <<>> => Len(pipe) > 0 /\ DOMAIN Tail(pipe) = 1 .. Len(pipe) - 1
                       /\ \A k \in 1 .. Len(pipe) - 1 : Tail(pipe)[k] = pipe[k + 1]
    BY <2>1, <2>2, EmptySeq, HeadTailProperties, LenProperties
  <2>4. pipe # <<>> => Head(pipe) = pipe[1]
    BY <2>1
  <2> QED
    BY <1>1, <2>2, <2>3, <2>4
<1>4. ASSUME PC(c) # "absent", InPipe(c)
      PROVE  InBuffer(c)' /\ ~InPipe(c)'
  <2>1. pipe # <<>> /\ Head(pipe) = Mine(c)
    <3>1. DOMAIN <<>> = {}
      OBVIOUS
    <3> QED
      BY <1>4, <3>1, WhereIs DEF Alone, Mine
  <2>2. InBuffer(c)'
    BY <1>1, <2>1, WhereIs
  <2>3. ASSUME InPipe(c)'
        PROVE  FALSE
    <3>1. PICK k \in 1 .. Len(pipe) - 1 : pipe[k + 1] = Mine(c)
      BY <1>3, <2>1, <2>3, WhereIs
    <3> DEFINE i == Len(written) - Len(pipe) + 1
               j == Len(written) - Len(pipe) + (k + 1)
    <3>2. i \in DOMAIN written /\ j \in DOMAIN written /\ i # j /\ k + 1 \in DOMAIN pipe
      <4>1. Len(written) \in Nat /\ DOMAIN written = 1 .. Len(written) /\ Len(pipe) <= Len(written)
        BY LenProperties DEF OrderInv
      <4> QED
        BY <1>3, <4>1
    <3>3. pipe[1] = Mine(written[i]) /\ pipe[k + 1] = Mine(written[j])
      BY <1>3, <2>1, <3>2 DEF OrderInv, Mine
    <3> HIDE DEF i, j
    <3>4. /\ written[i] \in Clients /\ PC(written[i]) # "absent"
          /\ written[j] \in Clients /\ PC(written[j]) # "absent"
      <4>1. written \in [1 .. Len(written) -> Clients]
        BY LenProperties DEF OrderInv
      <4> QED
        BY <3>2, <4>1 DEF OrderInv
    <3>5. written[i] = c /\ written[j] = c
      BY <1>3, <1>4, <2>1, <3>1, <3>3, <3>4, OwnLine
    <3> QED
      BY <3>2, <3>5 DEF OrderInv
  <2> QED
    BY <2>2, <2>3
<1>5. InPipe(c)' => InPipe(c)
  <2>1. CASE pipe = <<>>
    BY <1>1, <2>1, WhereIs
  <2>2. CASE pipe # <<>>
    <3>1. \A k \in 1 .. Len(pipe) - 1 : k + 1 \in 1 .. Len(pipe)
      BY <1>3
    <3> QED
      BY <1>3, <2>2, <3>1, WhereIs
  <2> QED
    BY <2>1, <2>2
<1>6. Written(c) => PC(c) # "absent"
  BY DEF OrderInv, Written
<1>7. /\ Written(c)' <=> Written(c)
      /\ Enqueued(c)' <=> Enqueued(c)
      /\ ~InBuffer(c)
  BY <1>1, WhereIs DEF Written
<1> QED
  BY <1>2, <1>4, <1>5, <1>6, <1>7, AloneStays

(* The request main has read is queued.                                    *)
LEMMA AlonePut ==
  ASSUME ClientInv, LineInv, TaskInv, OrderInv, Kept, MainPut, NEW c \in Clients, Alone(c)
  PROVE  Alone(c)'
<1> DEFINE r == reader_stc(main.buffer)
<1>1. /\ UNCHANGED <<written, pipe, client>> /\ main.pc = "put" /\ enqueued' = Append(enqueued, r)
  BY DEF MainPut
<1>2. PC(c)' = PC(c) /\ PC(c) \notin {"opening", "opened", "killed"}
  BY <1>1 DEF Alone, PC
<1>3. PC(c) # "absent" => ~InPipe(c)
  BY <1>1 DEF Alone
<1>4. /\ DOMAIN enqueued = 1 .. Len(enqueued) /\ Len(enqueued) \in Nat
      /\ DOMAIN enqueued' = 1 .. Len(enqueued) + 1 /\ enqueued'[Len(enqueued) + 1] = r
      /\ \A k \in 1 .. Len(enqueued) : enqueued'[k] = enqueued[k]
  <2>1. r \in Asked \cup {Nothing} /\ enqueued \in Seq(Asked \cup {Nothing})
    BY BufferReads DEF TaskInv
  <2> HIDE DEF r
  <2> QED
    BY <1>1, <2>1, AppendProperties, LenProperties
<1>5. Enqueued(c) => Enqueued(c)'
  BY <1>4, WhereIs
<1>6. PC(c) # "absent" /\ InBuffer(c) => Enqueued(c)'
  <2>1. PC(c) # "absent" => client[c].request \in Asked
    BY DEF ClientInv, Asked
  <2>2. PC(c) # "absent" /\ InBuffer(c) => r = client[c].request
    BY <2>1, BufferReads, WhereIs DEF Mine
  <2>3. Len(enqueued) + 1 \in 1 .. Len(enqueued) + 1
    BY <1>4
  <2> HIDE DEF r
  <2> QED
    BY <1>4, <2>2, <2>3, WhereIs
<1>7. (Written(c)' <=> Written(c)) /\ (InPipe(c)' <=> InPipe(c))
  BY <1>1, WhereIs DEF Written
<1>8. Written(c) => PC(c) # "absent"
  BY DEF OrderInv, Written
<1>9. ~Lost(c)'
  BY <1>3, <1>5, <1>6, <1>7, <1>8, WhereIs DEF Alone
<1>10. PC(c) # "absent" => ~InPipe(c)'
  BY <1>3, <1>7
<1> QED
  BY <1>2, <1>9, <1>10 DEF Alone

(* The step with which main comes to a client that waits.                  *)
LEMMA AloneMainOpen ==
  ASSUME ClientInv, LineInv, OrderInv, Kept, MainOpen, NEW c \in Clients, Alone(c)
  PROVE  Alone(c)'
<1>1. /\ main.pc = "open" /\ main' = [main EXCEPT !.pc = IF writers = {} THEN "opening" ELSE "read"]
      /\ UNCHANGED <<pipe, writers, written, enqueued>>
  BY DEF MainOpen, history
<1>2. main'.pc = IF writers = {} THEN "opening" ELSE "read"
  BY <1>1 DEF LineInv
<1>3. PC(c)' = IF PC(c) = "opening" THEN "opened" ELSE PC(c)
  <2>1. client'[c] = IF PC(c) = "opening" THEN [client[c] EXCEPT !.pc = "opened"] ELSE client[c]
    BY DEF MainOpen
  <2>2. client[c] \in ClientRecord
    BY DEF ClientInv
  <2> QED
    BY <2>1, <2>2 DEF PC, ClientRecord
<1>4. PC(c) \notin {"opened", "killed"}
  BY <1>1 DEF Alone
<1>5. CASE PC(c) = "opening"
  <2>1. writers = {c} /\ pipe = <<>> /\ main'.pc = "read"
    BY <1>2, <1>5 DEF Alone
  <2>2. ~InPipe(c)' /\ ~InPipe(c)
    BY <1>1, <2>1, WhereIs
  <2>3. ~Lost(c)'
    <3>1. (Written(c)' <=> Written(c)) /\ (Enqueued(c)' <=> Enqueued(c)) /\ ~InBuffer(c)
      BY <1>1, WhereIs DEF Written
    <3> QED
      BY <2>2, <3>1, WhereIs DEF Alone
  <2> QED
    BY <1>1, <1>3, <1>5, <2>1, <2>2, <2>3 DEF Alone
<1>6. CASE PC(c) # "opening"
  BY <1>1, <1>2, <1>3, <1>4, <1>6, AloneLeft
<1> QED
  BY <1>5, <1>6

(* A client stays alone until another comes.                                *)
LEMMA AloneNext ==
  ASSUME ClientInv, LineInv, TaskInv, OrderInv, AloneInv, Kept, FifoStep
  PROVE  AloneInv'
<1>1. SUFFICES ASSUME up', NEW c \in Clients, c \notin crowded'
               PROVE  Alone(c)'
  BY DEF AloneInv
<1>2. client \in [Clients -> ClientRecord]
  BY DEF ClientInv
<1>3. ASSUME up, crowded \subseteq crowded'
      PROVE  Alone(c)
  BY <1>1, <1>3 DEF AloneInv
<1>4. ASSUME NEW d \in Clients, ClientOpen(d)
      PROVE  Alone(c)'
  <2>1. up /\ crowded \subseteq crowded'
    BY <1>4 DEF ClientOpen, Step
  <2> QED
    BY <1>1, <1>3, <1>4, <2>1, AloneOpen
<1>5. ASSUME NEW d \in Clients, ClientWrite(d)
      PROVE  Alone(c)'
  <2>1. up /\ crowded \subseteq crowded'
    BY <1>5 DEF ClientWrite, Step
  <2> QED
    BY <1>3, <1>5, <2>1, AloneWrite
<1>6. ASSUME NEW d \in Clients, ClientKilled(d)
      PROVE  Alone(c)'
  <2>1. /\ UNCHANGED <<written, enqueued, main, crowded>> /\ pipe' \in {pipe, <<>>} /\ up
        /\ main.pc = "open"
    BY <1>6 DEF ClientKilled, Step, MainHas, Left, server
  <2>2. Moves(d, "opened", "killed")
    BY <1>2, <1>6, StepMoves DEF ClientKilled
  <2>3. Alone(c)
    BY <1>3, <2>1
  <2>4. c # d
    BY <2>1, <2>2, <2>3 DEF Moves, Alone
  <2>5. PC(c)' = PC(c) /\ PC(d) = "opened"
    BY <2>2, <2>4 DEF Moves
  <2>6. PC(c) \notin {"opening", "opened", "killed"}
    BY <2>3, <2>4, <2>5, AloneThere DEF Alone
  <2> QED
    BY <2>1, <2>3, <2>5, <2>6, AloneLeft
<1>7. ASSUME NEW d \in Clients, ClientClose(d)
      PROVE  Alone(c)'
  <2>1. /\ UNCHANGED <<written, enqueued, main, crowded>> /\ up
        /\ pipe' = IF MainHas THEN pipe ELSE Left(pipe, writers')
    BY <1>7 DEF ClientClose, Step, server
  <2>2. Moves(d, "written", "reply")
    BY <1>2, <1>7, StepMoves DEF ClientClose
  <2>3. Alone(c)
    BY <1>3, <2>1
  <2>4. PC(c)' \notin {"opening", "opened", "killed"}
    <3>1. CASE c = d
      BY <2>2, <3>1 DEF Moves
    <3>2. CASE c # d
      BY <2>2, <2>3, <3>2, AloneThere DEF Moves, Alone
    <3> QED
      BY <3>1, <3>2
  <2>5. pipe' \in {pipe, <<>>} /\ (main.pc = "read" => pipe' = pipe)
    BY <2>1 DEF MainHas, Left
  <2>6. CASE main.pc = "put"
    <3>1. pipe' = pipe
      BY <2>1, <2>6 DEF MainHas
    <3>2. /\ Written(c)' <=> Written(c)
          /\ Enqueued(c)' <=> Enqueued(c)
          /\ InBuffer(c)' <=> InBuffer(c)
          /\ InPipe(c)' <=> InPipe(c)
      BY <2>1, <3>1, WhereIs DEF Written
    <3> QED
      BY <2>1, <2>3, <2>4, <3>1, <3>2, AloneStays
  <2>7. CASE main.pc # "put"
    BY <2>1, <2>3, <2>4, <2>5, <2>7, AloneLeft
  <2> QED
    BY <2>6, <2>7
<1>8. CASE MainOpen
  BY <1>3, <1>8, AloneMainOpen DEF MainOpen, history
<1>9. CASE MainRead
  BY <1>3, <1>9, AloneRead DEF MainRead, history
<1>10. CASE MainPut
  BY <1>3, <1>10, AlonePut DEF MainPut
<1>11. CASE MainClose
  <2>1. /\ UNCHANGED <<written, enqueued, client, crowded>> /\ pipe' \in {pipe, <<>>} /\ up
        /\ main.pc = "close" /\ main'.pc = "open"
    BY <1>11 DEF MainClose, history, Left
  <2>2. Alone(c)
    BY <1>3, <2>1
  <2>3. PC(c)' = PC(c) /\ PC(c) \notin {"opening", "opened", "killed"}
    BY <2>1, <2>2 DEF Alone, PC
  <2> QED
    BY <2>1, <2>2, <2>3, AloneLeft
<1>12. CASE Settles
  <2>1. UNCHANGED <<up, main, pipe, writers, written, enqueued, crowded>>
    BY <1>12 DEF Settles
  <2>2. Alone(c)
    BY <1>1, <1>3, <2>1
  <2>3. /\ Lost(c)' <=> Lost(c)
        /\ InPipe(c)' <=> InPipe(c)
        /\ LineOf(client[c].request)' = LineOf(client[c].request)
    BY <2>1, WhereIs DEF Written, Mine
  <2>4. PC(c)' = PC(c) \/ (PC(c) \in {"reply", "attached"} /\ PC(c)' \in {"attached", "done"})
    BY <1>12 DEF Settles
  <2> QED
    BY <2>1, <2>2, <2>3, <2>4 DEF Alone
<1>13. CASE Ends
  BY <1>1, <1>13 DEF Ends, End
<1> QED
  BY <1>4, <1>5, <1>6, <1>7, <1>8, <1>9, <1>10, <1>11, <1>12, <1>13 DEF FifoStep

-----------------------------------------------------------------------------
(***************************************************************************)
(* The invariant holds, and what follows from it.                          *)
(***************************************************************************)
(* It holds in the beginning, before any client has come.                   *)
LEMMA InitInv == Init => IntakeInv
<1> SUFFICES ASSUME Init PROVE IntakeInv
  OBVIOUS
<1>1. PICK mix \in Mixes :
        client = [c \in Clients |->
                  [pc |-> IF mix[c] = NoRequest THEN "absent" ELSE "start",
                   request |-> mix[c], inbox |-> <<>>, due |-> <<>>, got |-> <<>>]]
  BY DEF Init
<1>2. ASSUME NEW c \in Clients
      PROVE  /\ PC(c) = IF mix[c] = NoRequest THEN "absent" ELSE "start"
             /\ client[c].request = mix[c] /\ client[c].inbox = <<>>
             /\ client[c].due = <<>> /\ client[c].got = <<>>
             /\ mix[c] \in Mixed
  BY <1>1 DEF PC, Mixed
<1>3. /\ up = TRUE /\ main = [pc |-> "open", buffer |-> Blank] /\ pipe = <<>> /\ writers = {}
      /\ tasks = [t \in Addresses |-> NoRequest] /\ queue = <<>>
      /\ taken = [w \in Workers |-> NoTask] /\ sessions = {}
      /\ written = <<>> /\ enqueued = <<>> /\ crowded = {}
  BY DEF Init, TaskQueue!Init
<1>4. Len(<<>>) = 0 /\ DOMAIN <<>> = {} /\ \A S : <<>> \in Seq(S)
  OBVIOUS
<1>5. ClientInv
  <2>1. client \in [Clients -> ClientRecord]
    <3>1. ASSUME NEW c \in Clients PROVE client[c] \in ClientRecord
      <4>1. client[c] = [pc |-> IF mix[c] = NoRequest THEN "absent" ELSE "start",
                         request |-> mix[c], inbox |-> <<>>, due |-> <<>>, got |-> <<>>]
        BY <1>1
      <4>2. (IF mix[c] = NoRequest THEN "absent" ELSE "start") \in Before \cup {"attached", "done"}
        BY DEF Before
      <4> QED
        BY <1>2, <1>4, <4>1, <4>2 DEF ClientRecord
    <3> QED
      BY <1>1, <3>1
  <2>2. ASSUME NEW c \in Clients, mix[c] # NoRequest
        PROVE  /\ IsRequest(mix[c])
               /\ \A d \in Clients \ {c} : mix[d] # NoRequest => Pipe(mix[d]) # Pipe(mix[c])
    BY <2>2, RequestsAssumption, RequestReads
  <2> QED
    BY <1>2, <2>1, <2>2 DEF ClientInv
<1>6. LineInv
  BY <1>2, <1>3, <1>4 DEF LineInv
<1>7. PlaceInv
  <2>1. 0 <= Capacity
    BY IntakeAssumption
  <2> QED
    BY <1>3, <1>4, <2>1 DEF PlaceInv
<1>8. TaskInv
  <2>1. \A t \in Addresses : t \notin TaskQueue!Waiting \cup TaskQueue!Running
    BY <1>3, <1>4, RequestsAssumption DEF TaskQueue!Waiting, TaskQueue!Running
  <2> QED
    BY <1>3, <1>4, <2>1 DEF TaskInv
<1>9. SessionInv
  BY <1>3 DEF SessionInv
<1>10. ReplyInv
  BY <1>2, <1>4 DEF ReplyInv, Replied
<1>11. OrderInv
  <2>1. Known = {}
    BY <1>3, <1>4 DEF Known
  <2>2. PICK at : at \in [Known -> DOMAIN written]
    <3>1. [k \in Known |-> 1] \in [Known -> DOMAIN written]
      BY <2>1
    <3> QED
      BY <3>1
  <2>3. Order(at)
    BY <1>3, <2>1 DEF Order
  <2> QED
    BY <1>3, <1>4, <2>2, <2>3 DEF OrderInv
<1>12. AloneInv
  BY <1>2, <1>3, <1>4 DEF AloneInv, Alone, InPipe, Lost
<1> QED
  BY <1>5, <1>6, <1>7, <1>8, <1>9, <1>10, <1>11, <1>12 DEF IntakeInv

(* Every step keeps it.                                                     *)
LEMMA NextInv == IntakeInv /\ [Next]_vars => IntakeInv'
<1> SUFFICES ASSUME IntakeInv, [Next]_vars PROVE IntakeInv'
  OBVIOUS
<1>1. /\ ClientInv /\ LineInv /\ PlaceInv /\ TaskInv /\ SessionInv
      /\ ReplyInv /\ OrderInv /\ AloneInv
  BY DEF IntakeInv
<1>2. Kept
  <2>1. CASE UNCHANGED vars
    BY <1>1, <2>1, SameKept DEF vars
  <2>2. CASE Next
    BY <1>1, <2>2, NextKept
  <2> QED
    BY <2>1, <2>2
<1>3. FifoStep
  BY <1>1, NextFifo
<1>4. TaskStep
  BY <1>1, NextTask
<1>5. ClientInv' /\ LineInv' /\ PlaceInv' /\ TaskInv'
  BY <1>1, <1>2, <1>3, <1>4, ClientNext, LineNext, PlaceNext, TasksNext
<1>6. SessionInv' /\ ReplyInv'
  BY <1>1, <1>2, SessionNext, ReplyNext
<1>7. OrderInv' /\ AloneInv'
  BY <1>1, <1>2, <1>3, OrderNext, AloneNext
<1> QED
  BY <1>5, <1>6, <1>7 DEF IntakeInv

(* Whatever happens, the FIFO, the buffer, the queue, the workers, the     *)
(* sessions and the clients are as IntakeInv says.                         *)
THEOREM IntakeCorrect == Spec => []IntakeInv
BY InitInv, NextInv, PTL DEF Spec

(* An address holds a request as long as the task is queued or running, a  *)
(* session is a publisher's or a subscriber's, and who has the FIFO open   *)
(* is who is between its open and its close.                               *)
THEOREM TypesCorrect == Spec => []TypeOK
<1>1. IntakeInv => TypeOK
  <2> SUFFICES ASSUME IntakeInv PROVE TypeOK
    OBVIOUS
  <2>1. LineInv /\ SessionInv /\ TaskInv
    BY DEF IntakeInv
  <2> QED
    BY <2>1 DEF LineInv, SessionInv, TaskInv, TypeOK
<1> QED
  BY <1>1, IntakeCorrect, PTL

(* Every request that is queued was written by a client, and they are      *)
(* queued in the order they were written in, none of them twice.           *)
THEOREM RequestsTakenOnce == Spec => []TakenOnce
<1>1. IntakeInv => TakenOnce
  <2> SUFFICES ASSUME IntakeInv PROVE TakenOnce
    OBVIOUS
  <2>1. PICK at \in [Known -> DOMAIN written] : Order(at)
    BY DEF IntakeInv, OrderInv
  <2> QED
    BY <2>1 DEF Order, TakenOnce
<1> QED
  BY <1>1, IntakeCorrect, PTL

(* A client whose request is lost, or that SIGPIPE kills, has met another  *)
(* at the FIFO: one that finds it idle is heard as long as the broker runs. *)
THEOREM LostOnlyIfCrowded == Spec => []LostOnlyCrowded
<1>1. IntakeInv => LostOnlyCrowded
  BY DEF IntakeInv, AloneInv, Alone, LostOnlyCrowded
<1> QED
  BY <1>1, IntakeCorrect, PTL

(* A manager has shown, when it ends, all the lines of its answer, in      *)
(* order, and nothing else, however long the list.                         *)
THEOREM ManagersShowAnswers == Spec => []AnswersMatch
<1>1. IntakeInv => AnswersMatch
  BY DEF IntakeInv, ReplyInv, Replied, AnswersMatch
<1> QED
  BY <1>1, IntakeCorrect, PTL
=============================================================================
