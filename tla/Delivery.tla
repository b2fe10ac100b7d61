------------------------------ MODULE Delivery ------------------------------
(***************************************************************************)
(* One message box of the broker: workers that run process_pub and         *)
(* process_sub (mbroker.c) and the clients at the other end of their       *)
(* FIFOs.  Publishers append to the box's file through one handle,         *)
(* subscribers read it from the start through handles of their own;        *)
(* box_lock and cond_var put a subscriber that has read it all to sleep.   *)
(* The box is there throughout; what the list command reports of it        *)
(* (n_subs, box_size) steers nothing here.                                 *)
(***************************************************************************)
EXTENDS TfsState

CONSTANTS Publishers, Subscribers,   \* workers, each with its client
          Box,        \* the path of the box's file
          Texts,      \* the messages clients publish: sequences of bytes but Nul
          Garbage,    \* what the stack of a worker may hold: such sequences too
          MaxSent,    \* bound on the messages published in all
          Nobody

Workers == Publishers \cup Subscribers

ASSUME DeliveryAssumption ==
  /\ Publishers \cap Subscribers = {} /\ Nobody \notin Workers
  /\ Box \in Names \ LongNames
  /\ MaxSent \in Nat
  /\ \A t \in Texts \cup Garbage : t \in Seq(Bytes \ {Nul})

VARIABLES fs,         \* TecnicoFS
          up,         \* the broker runs
          n_pub,      \* box.n_pub
          box_lock,   \* owner of box.box_lock
          pc,         \* next step of each worker
          handle,     \* fd_tfs
          text,       \* the message a worker has read, from its client or the box
          client,     \* the client holds its end of the FIFO open
          pipe,       \* messages in a publisher's FIFO
          sent,       \* every message passed to tfs_write, in order
          received    \* what the client of a subscriber got

vars == <<fs, up, n_pub, box_lock, pc, handle, text, client, pipe, sent, received>>

Goto(w, from, to) == /\ up
                     /\ pc[w] = from
                     /\ pc' = [pc EXCEPT ![w] = to]

(* process_manager_create has made the file. *)
Init == /\ LET made == Open(InitialState, Box, {"creat"})
           IN fs = Close(made.fs, made.ret).fs
        /\ up = TRUE
        /\ n_pub = 0
        /\ box_lock = Nobody
        /\ pc = [w \in Workers |-> "idle"]
        /\ handle = [w \in Workers |-> None]
        /\ text = [w \in Workers |-> <<>>]
        /\ client = [w \in Workers |-> FALSE]
        /\ pipe = [p \in Publishers |-> <<>>]
        /\ sent = <<>>
        /\ received = [s \in Subscribers |-> <<>>]

-----------------------------------------------------------------------------
(* Mutant of Publish: n_pub is counted, as n_subs is, and not checked. *)
PublishUnchecked(p) ==
  /\ Goto(p, "idle", "open")
  /\ n_pub' = n_pub + 1
  /\ client' = [client EXCEPT ![p] = TRUE]
  /\ UNCHANGED <<fs, up, box_lock, handle, text, pipe, sent, received>>

(* process_pub checks and sets n_pub under box_size_lock; a second         *)
(* publisher finds its FIFO closed and the worker is idle again.           *)
Publish(p) == /\ n_pub = 0
              /\ Goto(p, "idle", "open")
              /\ n_pub' = 1
              /\ client' = [client EXCEPT ![p] = TRUE]
              /\ UNCHANGED <<fs, up, box_lock, handle, text, pipe, sent, received>>

(* Mutant of PubOpen: the publisher starts at the beginning of the box. *)
PubOpenStart(p) ==
  LET r == Open(fs, Box, {})
  IN /\ Goto(p, "open", IF r.ret = None THEN "idle" ELSE "read")
     /\ fs' = r.fs
     /\ handle' = [handle EXCEPT ![p] = r.ret]
     /\ UNCHANGED <<up, n_pub, box_lock, text, client, pipe, sent, received>>

(* Without a handle the worker hangs up, returns and leaves n_pub as it is. *)
PubOpen(p) ==
  LET r == Open(fs, Box, {"append"})
  IN /\ Goto(p, "open", IF r.ret = None THEN "idle" ELSE "read")
     /\ fs' = r.fs
     /\ handle' = [handle EXCEPT ![p] = r.ret]
     /\ client' = [client EXCEPT ![p] = @ /\ r.ret # None]
     /\ pipe' = [pipe EXCEPT ![p] = IF r.ret = None THEN <<>> ELSE @]
     /\ UNCHANGED <<up, n_pub, box_lock, text, sent, received>>

PubRead(p) == /\ pipe[p] # <<>>
              /\ Goto(p, "read", "write")
              /\ text' = [text EXCEPT ![p] = Head(pipe[p])]
              /\ pipe' = [pipe EXCEPT ![p] = Tail(@)]
              /\ UNCHANGED <<fs, up, n_pub, box_lock, handle, client, sent, received>>

PubEof(p) == /\ pipe[p] = <<>> /\ ~client[p]
             /\ Goto(p, "read", "close")
             /\ UNCHANGED <<fs, up, n_pub, box_lock, handle, text, client, pipe, sent, received>>

(* The message and its terminator, as far as the block holds them. *)
PubWrite(p) ==
  LET r == Write(fs, handle[p], Append(text[p], Nul))
  IN /\ Goto(p, "write", IF r.ret = None THEN "close" ELSE "broadcast")
     /\ fs' = r.fs
     /\ sent' = IF r.ret = None THEN sent ELSE Append(sent, text[p])
     /\ text' = [text EXCEPT ![p] = <<>>]
     /\ UNCHANGED <<up, n_pub, box_lock, handle, client, pipe, received>>

(* Mutant of PubBroadcast: it wakes nobody. *)
PubSilent(p) ==
  /\ Goto(p, "broadcast", "read")
  /\ UNCHANGED <<fs, up, n_pub, box_lock, handle, text, client, pipe, sent, received>>

(* pthread_cond_broadcast, without box_lock. *)
PubBroadcast(p) ==
  /\ up /\ pc[p] = "broadcast"
  /\ pc' = [w \in Workers |-> IF w = p THEN "read"
                              ELSE IF pc[w] = "asleep" THEN "relock" ELSE pc[w]]
  /\ UNCHANGED <<fs, up, n_pub, box_lock, handle, text, client, pipe, sent, received>>

(* Mutant of PubClose: the publisher leaves its flag up. *)
PubCloseOnly(p) ==
  /\ Goto(p, "close", "idle")
  /\ fs' = Close(fs, handle[p]).fs
  /\ handle' = [handle EXCEPT ![p] = None]
  /\ client' = [client EXCEPT ![p] = FALSE]
  /\ pipe' = [pipe EXCEPT ![p] = <<>>]
  /\ UNCHANGED <<up, n_pub, box_lock, text, sent, received>>

PubClose(p) == /\ Goto(p, "close", "idle")
               /\ fs' = Close(fs, handle[p]).fs
               /\ handle' = [handle EXCEPT ![p] = None]
               /\ n_pub' = 0
               /\ client' = [client EXCEPT ![p] = FALSE]
               /\ pipe' = [pipe EXCEPT ![p] = <<>>]
               /\ UNCHANGED <<up, box_lock, text, sent, received>>

-----------------------------------------------------------------------------
Subscribe(s) == /\ Goto(s, "idle", "open")
                /\ client' = [client EXCEPT ![s] = TRUE]
                /\ UNCHANGED <<fs, up, n_pub, box_lock, handle, text, pipe, sent, received>>

(* Without a handle process_sub calls exit(1): the broker is gone. *)
SubOpen(s) ==
  LET r == Open(fs, Box, {})
  IN /\ Goto(s, "open", "lock")
     /\ up' = (r.ret # None)
     /\ fs' = r.fs
     /\ handle' = [handle EXCEPT ![s] = r.ret]
     /\ UNCHANGED <<n_pub, box_lock, text, client, pipe, sent, received>>

(* At the top of the loop, or on return from pthread_cond_wait. *)
SubLock(s) == /\ Goto(s, "lock", "poll") \/ Goto(s, "relock", "poll")
              /\ box_lock = Nobody
              /\ box_lock' = s
              /\ UNCHANGED <<fs, up, n_pub, handle, text, client, pipe, sent, received>>

(* tfs_read before the first message of a round, and after each.  It fails *)
(* on a closed handle only.                                                *)
SubRead(s, from, none) ==
  LET r == Read(fs, handle[s], BlockSize)
  IN /\ Goto(s, from, IF r.ret > 0 THEN "send" ELSE none)
     /\ fs' = r.fs
     /\ text' = [text EXCEPT ![s] = r.out]
     /\ UNCHANGED <<up, n_pub, box_lock, handle, client, pipe, sent, received>>

SubPoll(s) == SubRead(s, "poll", "wait")
SubMore(s) == SubRead(s, "more", "unlock")

(* pthread_cond_wait: release box_lock and join the sleepers, atomically. *)
SubWait(s) == /\ Goto(s, "wait", "asleep")
              /\ box_lock' = Nobody
              /\ UNCHANGED <<fs, up, n_pub, handle, text, client, pipe, sent, received>>

SpuriousWakeup(s) ==
  /\ Goto(s, "asleep", "relock")
  /\ UNCHANGED <<fs, up, n_pub, box_lock, handle, text, client, pipe, sent, received>>

(* tfs_read leaves no terminator, and the first one of a subscription      *)
(* reads into a buffer that nobody has cleared: strcpy takes what follows. *)
Tails(s) == IF received[s] = <<>> THEN Garbage ELSE {<<>>}

(* write to the client, with box_lock held; EPIPE ends the subscription. *)
SubSend(s) ==
  /\ client[s]
  /\ Goto(s, "send", "more")
  /\ \E g \in Tails(s) : received' = [received EXCEPT ![s] = Append(@, text[s] \o g)]
  /\ UNCHANGED <<fs, up, n_pub, box_lock, handle, text, client, pipe, sent>>

SubBroken(s) == /\ ~client[s]
                /\ Goto(s, "send", "idle")
                /\ fs' = Close(fs, handle[s]).fs
                /\ box_lock' = Nobody
                /\ handle' = [handle EXCEPT ![s] = None]
                /\ text' = [text EXCEPT ![s] = <<>>]
                /\ received' = [received EXCEPT ![s] = <<>>]
                /\ UNCHANGED <<up, n_pub, client, pipe, sent>>

SubUnlock(s) == /\ Goto(s, "unlock", "lock")
                /\ box_lock' = Nobody
                /\ UNCHANGED <<fs, up, n_pub, handle, text, client, pipe, sent, received>>

-----------------------------------------------------------------------------
(* The clients: publish a line, end at the end of the input, or go away. *)
Sent == FoldSet(LAMBDA p, n : n + Len(pipe[p]), Len(sent), Publishers)

ClientSends(p) == /\ client[p] /\ Sent < MaxSent
                  /\ \E t \in Texts : pipe' = [pipe EXCEPT ![p] = Append(@, t)]
                  /\ UNCHANGED <<fs, up, n_pub, box_lock, pc, handle, text, client, sent,
                                 received>>

ClientLeaves(w) == /\ client[w]
                   /\ client' = [client EXCEPT ![w] = FALSE]
                   /\ UNCHANGED <<fs, up, n_pub, box_lock, pc, handle, text, pipe, sent,
                                  received>>

process_pub(p) == \/ PubOpen(p) \/ PubRead(p) \/ PubEof(p) \/ PubWrite(p)
                  \/ PubBroadcast(p) \/ PubClose(p)
process_sub(s) == \/ SubOpen(s) \/ SubLock(s) \/ SubPoll(s) \/ SubWait(s)
                  \/ SubSend(s) \/ SubMore(s) \/ SubBroken(s) \/ SubUnlock(s)

Next == \/ \E p \in Publishers : Publish(p) \/ process_pub(p) \/ ClientSends(p)
        \/ \E s \in Subscribers : Subscribe(s) \/ process_sub(s) \/ SpuriousWakeup(s)
        \/ \E w \in Workers : ClientLeaves(w)

Spec == Init /\ [][Next]_vars

(* Every worker runs.  No client must send or leave, no sleeper wakes by   *)
(* itself; a client that stays reads what it is sent.                      *)
FairSpec == /\ Spec
            /\ \A p \in Publishers : WF_vars(process_pub(p))
            /\ \A s \in Subscribers : WF_vars(process_sub(s))

-----------------------------------------------------------------------------
TypeOK == /\ up \in BOOLEAN /\ n_pub \in {0, 1}
          /\ box_lock \in Subscribers \cup {Nobody}
          /\ handle \in [Workers -> Handles \cup {None}]
          /\ client \in [Workers -> BOOLEAN]
          /\ pipe \in [Publishers -> Seq(Texts)]
          /\ sent \in Seq(Texts)
          /\ received \in [Subscribers -> Seq(Seq(Bytes))]

BoxInode == fs.inode[Lookup(fs, Box)]

(* The messages that are not empty among the first i. *)
Said(i) == Cardinality({j \in 1 .. i : sent[j] # <<>>})

(* Every subscriber, whenever it came, gets the messages published since   *)
(* the box was made: in order, none twice, none skipped but empty ones,    *)
(* only the one that fills the block cut short, and only the first one     *)
(* with more behind it than was published.                                 *)
InOrder ==
  LET behind(k) == IF k = 1 THEN Garbage \cup {<<>>} ELSE {<<>>}
      cuts(s, k, i) == IF k = Len(received[s]) /\ BoxInode.size = BlockSize
                         THEN 1 .. Len(sent[i]) ELSE {Len(sent[i])}
  IN \A s \in Subscribers : \A k \in DOMAIN received[s] : \E i \in DOMAIN sent :
       /\ sent[i] # <<>> /\ Said(i) = k
       /\ \E n \in cuts(s, k, i), g \in behind(k) : received[s][k] = SubSeq(sent[i], 1, n) \o g

(* The flag that keeps a second publisher out is up exactly while one is   *)
(* in: none is locked out of a box nobody publishes to.                    *)
OnePublisher == /\ n_pub = 1 <=> \E p \in Publishers : pc[p] # "idle"
                /\ \A p, q \in Publishers : pc[p] # "idle" /\ pc[q] # "idle" => p = q

(* What a subscriber has yet to read is at most the terminator of the last *)
(* message.                                                                *)
CaughtUp(s) == handle[s] # None /\ fs.file[handle[s]].offset >= BoxInode.size - 1

(* A broadcast can fall between the read that finds nothing and the wait,  *)
(* and the subscriber then sleeps with a message unread; but the broadcast *)
(* after the next message brings it everything there is.                   *)
Delivered ==
  \A s \in Subscribers :
    (pc[s] = "asleep" /\ \E p \in Publishers : pc[p] = "broadcast")
      ~> (pc[s] = "idle" \/ CaughtUp(s))

(* A publisher that leaves makes room for the next. *)
Released == \A p \in Publishers : (pc[p] # "idle" /\ ~client[p]) ~> n_pub = 0
=============================================================================
