-------------------------- MODULE TfsThreadsProofs --------------------------
(***************************************************************************)
(* What the locks of TecnicoFS give the threads that call it, for any      *)
(* number of threads and whatever they call at the same time.              *)
(***************************************************************************)
EXTENDS TfsThreads, TfsStateProofs, SequenceTheorems

-----------------------------------------------------------------------------
(***************************************************************************)
(* The file system the threads find.                                       *)
(***************************************************************************)

(* A call leaves the tables tables. *)
LEMMA EffectType ==
  ASSUME NEW s \in Tables, NEW c, IsCall(c)
  PROVE  Effect(s, c).fs \in Tables
<1>1. CASE c.op = "open"
  <2>1. c.path \in Names
    BY <1>1 DEF IsCall
  <2> QED
    BY <1>1, <2>1, OpenType DEF Effect
<1>2. CASE c.op = "unlink"
  BY <1>2, UnlinkType DEF Effect
<1>3. CASE c.op = "link"
  <2>1. c.path \in Names /\ c.name \in Names
    BY <1>3 DEF IsCall
  <2> QED
    BY <1>3, <2>1, LinkType DEF Effect
<1>4. CASE c.op = "sym_link"
  <2>1. c.path \in Names /\ c.name \in Names
    BY <1>4 DEF IsCall
  <2> QED
    BY <1>4, <2>1, SymLinkType DEF Effect
<1>5. CASE c.op = "close"
  BY <1>5, CloseType DEF Effect
<1>6. CASE c.op = "write"
  <2>1. c.text \in Seq(Bytes)
    BY <1>6 DEF IsCall
  <2> QED
    BY <1>6, <2>1, WriteType DEF Effect
<1>7. CASE c.op = "read"
  <2>1. c.len \in Nat
    BY <1>7 DEF IsCall
  <2> QED
    BY <1>7, <2>1, ReadType DEF Effect
<1> QED
  BY <1>1, <1>2, <1>3, <1>4, <1>5, <1>6, <1>7 DEF IsCall

(* A set of numbers with a bound has a largest one. *)
LEMMA MaxIsGreatest ==
  ASSUME NEW k \in Nat, NEW S \in SUBSET (0 .. k), S # {}
  PROVE  Max(S) \in S /\ \A x \in S : Max(S) >= x
<1> DEFINE T == {k - x : x \in S}
<1>1. T \in SUBSET Nat /\ T # {}
  <2>1. ASSUME NEW x \in S PROVE k - x \in Nat
    OBVIOUS
  <2> QED
    BY <2>1
<1>2. Min(T) \in T /\ \A y \in T : Min(T) <= y
  BY <1>1, MinIsLeast
<1>3. PICK x \in S : Min(T) = k - x
  BY <1>2
<1>4. ASSUME NEW y \in S PROVE x >= y
  <2>1. k - x <= k - y
    BY <1>2, <1>3
  <2> QED
    BY <2>1
<1> QED
  BY <1>4 DEF Max

(* Calls made one after the other never leave a set that none of them      *)
(* leaves: FoldLeft takes its last element first, and a set of indices     *)
(* grows by its largest.                                                   *)
LEMMA ScriptStays ==
  ASSUME NEW script, NEW n \in Nat, DOMAIN script = 1 .. n, NEW Good, InitialState \in Good,
         \A k \in 1 .. n : \A s \in Good : Effect(s, script[k]).fs \in Good
  PROVE  FoldLeft(LAMBDA s, c : Effect(s, c).fs, InitialState, script) \in Good
<1> DEFINE all == SUBSET (1 .. n)
           after(f, S) == IF S = {} THEN InitialState
                          ELSE Effect(f[S \ {Max(S)}], script[Max(S)]).fs
           P(f) == f = [S \in all |-> after(f, S)]
           iter == CHOOSE f : P(f)
<1>1. FoldLeft(LAMBDA s, c : Effect(s, c).fs, InitialState, script) = iter[1 .. n]
  BY DEF FoldLeft, MapThenFoldSet
<1>2. ASSUME NEW k \in Nat, NEW S \in SUBSET (1 .. k), S # {}
      PROVE  Max(S) \in S /\ (k \in S => Max(S) = k)
  <2>1. S \in SUBSET (0 .. k) /\ \A x \in S : x <= k
    OBVIOUS
  <2>2. Max(S) \in S /\ \A x \in S : Max(S) >= x
    BY <1>2, <2>1, MaxIsGreatest
  <2>3. ASSUME NEW m \in S, \A x \in S : m >= x, k \in S PROVE m = k
    <3>1. m >= k /\ m <= k /\ m \in Nat
      BY <2>1, <2>3
    <3> QED
      BY <3>1
  <2> QED
    BY <2>2, <2>3
<1> DEFINE part(k) == SUBSET (1 .. k)
           Q(k, f) == \A S \in part(k) : f[S] = after(f, S)
           Done == {k \in Nat : k <= n => \E f \in [part(k) -> Good] : Q(k, f)}
<1>3. 0 \in Done
  <2> DEFINE f == [S \in part(0) |-> InitialState]
  <2>1. f \in [part(0) -> Good]
    OBVIOUS
  <2>2. ASSUME NEW S \in part(0) PROVE f[S] = after(f, S)
    <3>1. S = {}
      OBVIOUS
    <3> QED
      BY <3>1
  <2>3. \E g \in [part(0) -> Good] : Q(0, g)
    BY <2>1, <2>2
  <2> QED
    BY <2>3
<1>4. ASSUME NEW k \in Nat, k \in Done PROVE k + 1 \in Done
  <2> SUFFICES ASSUME k + 1 <= n PROVE \E g \in [part(k + 1) -> Good] : Q(k + 1, g)
    <3> HIDE DEF Q, part
    <3> QED
      OBVIOUS
  <2>1. PICK f \in [part(k) -> Good] : Q(k, f)
    <3>1. k <= n
      OBVIOUS
    <3> HIDE DEF Q, part
    <3> QED
      BY <1>4, <3>1
  <2> DEFINE g == [S \in part(k + 1) |->
                     IF k + 1 \in S THEN Effect(f[S \ {k + 1}], script[k + 1]).fs ELSE f[S]]
  <2>2. ASSUME NEW S \in part(k + 1)
        PROVE  k + 1 \notin S => S \in part(k)
    OBVIOUS
  <2>3. ASSUME NEW S \in part(k + 1) PROVE S \ {k + 1} \in part(k)
    OBVIOUS
  <2>4. g \in [part(k + 1) -> Good]
    <3>1. \A s \in Good : Effect(s, script[k + 1]).fs \in Good
      OBVIOUS
    <3> HIDE DEF part
    <3> QED
      BY <2>1, <2>2, <2>3, <3>1
  <2>5. ASSUME NEW S \in part(k + 1) PROVE g[S] = after(g, S)
    <3>1. CASE k + 1 \in S
      <4>1. S # {} /\ Max(S) = k + 1
        BY <1>2, <3>1
      <4>2. S \ {k + 1} \in part(k + 1) /\ k + 1 \notin S \ {k + 1}
        OBVIOUS
      <4> HIDE DEF part
      <4>3. g[S \ {k + 1}] = f[S \ {k + 1}]
        BY <4>2
      <4>4. g[S] = Effect(f[S \ {k + 1}], script[k + 1]).fs
        BY <3>1
      <4> HIDE DEF g
      <4> QED
        BY <4>1, <4>3, <4>4
    <3>2. CASE k + 1 \notin S
      <4>1. S \in part(k) /\ g[S] = f[S]
        BY <2>2, <3>2
      <4>2. S # {} => Max(S) \in S
        BY <1>2
      <4>3. S \ {Max(S)} \in part(k + 1) /\ k + 1 \notin S \ {Max(S)}
        BY <3>2
      <4> HIDE DEF part
      <4>4. g[S \ {Max(S)}] = f[S \ {Max(S)}]
        BY <4>3
      <4>5. f[S] = after(f, S)
        BY <2>1, <4>1
      <4> HIDE DEF g
      <4> QED
        BY <4>1, <4>4, <4>5
    <3> QED
      BY <3>1, <3>2
  <2> QED
    <3> HIDE DEF g, part, after
    <3> QED
      BY <2>4, <2>5
<1>5. P(iter)
  <2>1. n \in Done
    <3> HIDE DEF Done
    <3> QED
      BY <1>3, <1>4, AllNumbers
  <2>2. PICK f \in [part(n) -> Good] : Q(n, f)
    <3> HIDE DEF Q, part
    <3> QED
      BY <2>1
  <2>3. P(f)
    <3> HIDE DEF after
    <3> QED
      BY <2>2
  <2> HIDE DEF P
  <2> QED
    BY <2>3
<1>6. ASSUME NEW S \in all PROVE iter[S] = after(iter, S)
  <2> HIDE DEF iter, after
  <2> QED
    BY <1>5
<1> DEFINE Reached == {k \in Nat : k <= n => \A S \in part(k) : iter[S] \in Good}
<1> HIDE DEF iter
<1>7. 0 \in Reached
  <2>1. ASSUME NEW S \in part(0) PROVE iter[S] \in Good
    <3>1. S = {} /\ S \in all
      OBVIOUS
    <3> QED
      BY <1>6, <3>1
  <2> QED
    BY <2>1
<1>8. ASSUME NEW k \in Nat, k \in Reached PROVE k + 1 \in Reached
  <2> SUFFICES ASSUME k + 1 <= n, NEW S \in part(k + 1) PROVE iter[S] \in Good
    OBVIOUS
  <2>1. CASE k + 1 \in S
    <3>1. S # {} /\ Max(S) = k + 1 /\ S \in all
      BY <1>2, <2>1
    <3>2. S \ {k + 1} \in part(k) /\ \A s \in Good : Effect(s, script[k + 1]).fs \in Good
      OBVIOUS
    <3>3. iter[S \ {k + 1}] \in Good
      BY <1>8, <3>2
    <3> QED
      BY <1>6, <3>1, <3>2, <3>3
  <2>2. CASE k + 1 \notin S
    <3>1. S \in part(k)
      BY <2>2
    <3> QED
      BY <1>8, <3>1
  <2> QED
    BY <2>1, <2>2
<1>9. n \in Reached
  <2> HIDE DEF Reached
  <2> QED
    BY <1>7, <1>8, AllNumbers
<1>10. iter[1 .. n] \in Good
  BY <1>9
<1> QED
  BY <1>1, <1>10

(* So a script leaves tables. *)
LEMMA ScriptType ==
  ASSUME NEW script \in Scripts
  PROVE  FoldLeft(LAMBDA s, c : Effect(s, c).fs, InitialState, script) \in Tables
<1>1. DOMAIN script = 1 .. Len(script) /\ Len(script) \in Nat
      /\ \A k \in 1 .. Len(script) : IsCall(script[k])
  BY ThreadsAssumption
<1>2. \A k \in 1 .. Len(script) : \A s \in Tables : Effect(s, script[k]).fs \in Tables
  BY <1>1, EffectType
<1> QED
  BY <1>1, <1>2, InitialStateType, ScriptStays

-----------------------------------------------------------------------------
(***************************************************************************)
(* Who holds which lock.                                                   *)
(***************************************************************************)
Registers == [pc : Steps, call : Calls \cup {NoCall}, ino : Inums \cup {None},
              new : Inums \cup {None}, offset : Nat, ret : Int, out : Seq(Bytes),
              before : SUBSET Threads]

(* The registers r of a thread at each step. *)
Placed(t, r) ==
  /\ r \in Registers /\ t \notin r.before
  /\ r.pc # "idle" => r.call \in Calls
  /\ r.pc \notin {"idle", "alloc", "done"} => r.ino \in Inums
  /\ r.call.op = "sym_link" /\ r.pc \in {"fill", "text", "enter"} => r.new \in Inums
  /\ r.call.op \in {"close", "write", "read"} /\ r.pc # "done" => r.call.h \in Handles

Mode(r) == IF r.call.op = "write" THEN "w" ELSE "r"
Free == {"idle", "done", "lock", "relock", "alloc", "handle", "undo"}

(* The locks L that a thread with the registers r holds.  While it follows *)
(* links it has the first one's.                                           *)
Owns(t, r, L) ==
  LET held(lock, mode) == [lock |-> lock, by |-> t, mode |-> mode]
      own(mode) == held(InodeLock(r.ino), mode)
      op == r.call.op
  IN \/ /\ \/ r.pc \in Free
           \/ op = "open" /\ r.pc \in {"fill", "enter"}
           \/ op = "close" /\ r.pc = "file"
        /\ L = {}
     \/ op = "open" /\ r.pc = "hop" /\ \E i \in Inums : L = {held(InodeLock(i), "w")}
     \/ op = "open" /\ r.pc \in {"cut", "shrink", "seek"} /\ \E m \in {"r", "w"} : L = {own(m)}
     \/ op = "sym_link" /\ r.pc \in {"fill", "text"} /\ L = {own("r")}
     \/ op = "sym_link" /\ r.pc = "enter" /\ L = {own("r"), held(InodeLock(r.new), "w")}
     \/ op = "link" /\ r.pc = "enter" /\ L = {own("w")}
     \/ op = "unlink" /\ r.pc = "drop" /\ L = {own("w")}
     \/ op \in {"write", "read"} /\ r.pc = "file" /\ L = {own(Mode(r))}
     \/ /\ \/ op = "write" /\ r.pc \in {"space", "put"}
           \/ op = "read" /\ r.pc = "copy"
        /\ L = {own(Mode(r)), held(FileLock(r.call.h), Mode(r))}

Held(t) == {k \in locks : k.by = t}

(* Readers share, a writer is alone. *)
Exclusion == \A k, l \in locks : k.lock = l.lock => k = l \/ (k.mode = "r" /\ l.mode = "r")

LockInv == /\ fs \in Tables
           /\ thread \in [Threads -> Registers]
           /\ \A t \in Threads : Placed(t, thread[t]) /\ Owns(t, thread[t], Held(t))
           /\ \A k \in locks : k.by \in Threads
           /\ Exclusion

(* What a step of thread t does to the registers and the locks: it turns   *)
(* its registers to r and its locks to L, of which at most one is new.     *)
Moves(t) ==
  /\ fs' \in Tables
  /\ \E r, L : /\ thread' = [thread EXCEPT ![t] = r]
               /\ thread[t].pc = "idle" \/ r.call = Call(t)
               /\ Placed(t, r) /\ Owns(t, r, L)
               /\ locks' = Dropped(t) \cup L
               /\ \/ L \subseteq locks
                  \/ \E lock, mode : /\ CanLock(lock, mode)
                                     /\ L \subseteq locks \cup {[lock |-> lock, by |-> t, mode |-> mode]}

(* A move of one thread keeps the invariant: it holds no lock that another *)
(* thread excludes.                                                        *)
LEMMA MovesInv ==
  ASSUME LockInv, NEW t \in Threads, Moves(t)
  PROVE  LockInv'
<1>1. PICK r, L : /\ thread' = [thread EXCEPT ![t] = r]
                  /\ Placed(t, r) /\ Owns(t, r, L)
                  /\ locks' = Dropped(t) \cup L
                  /\ \/ L \subseteq locks
                     \/ \E lock, mode :
                          /\ CanLock(lock, mode)
                          /\ L \subseteq locks \cup {[lock |-> lock, by |-> t, mode |-> mode]}
  BY DEF Moves
<1>2. \A k \in L : k.by = t
  BY <1>1 DEF Owns
<1>3. (fs \in Tables)' /\ (thread \in [Threads -> Registers])'
  BY <1>1 DEF Moves, LockInv, Placed
<1>4. Held(t)' = L
  BY <1>1, <1>2 DEF Held, Dropped
<1>5. \A u \in Threads \ {t} : Held(u)' = Held(u) /\ thread'[u] = thread[u]
  BY <1>1, <1>2 DEF Held, Dropped, LockInv
<1>6. \A u \in Threads : Placed(u, thread'[u]) /\ Owns(u, thread'[u], Held(u)')
  <2>1. thread'[t] = r
    BY <1>1 DEF LockInv
  <2> QED
    BY <1>1, <1>4, <1>5, <2>1 DEF LockInv
<1>7. \A k \in locks' : k.by \in Threads
  BY <1>1, <1>2 DEF LockInv, Dropped
<1>8. Exclusion'
  <2>1. CASE L \subseteq locks
    BY <1>1, <2>1 DEF Exclusion, LockInv, Dropped
  <2>2. ASSUME NEW lock, NEW mode, CanLock(lock, mode),
               L \subseteq locks \cup {[lock |-> lock, by |-> t, mode |-> mode]}
        PROVE  Exclusion'
    <3> DEFINE n == [lock |-> lock, by |-> t, mode |-> mode]
    <3>1. locks' \subseteq locks \cup {n}
      BY <1>1, <2>2 DEF Dropped
    <3>2. n.lock = lock /\ n.mode = mode
      OBVIOUS
    <3> HIDE DEF n
    <3> QED
      BY <2>2, <3>1, <3>2 DEF Exclusion, LockInv, CanLock
  <2> QED
    BY <1>1, <2>1, <2>2
<1> QED
  <2>1. \A u \in Threads : Placed(u, thread[u])' /\ Owns(u, thread[u], Held(u))'
    BY <1>6 DEF Placed, Owns, InodeLock, FileLock, Mode
  <2> QED
    BY <1>3, <1>7, <1>8, <2>1 DEF LockInv

-----------------------------------------------------------------------------
(* The registers of t with these in place of those it has. *)
Turned(t, step, ino, new, offset) ==
  [thread[t] EXCEPT !.pc = step, !.ino = ino, !.new = new, !.offset = offset]

CanTurn(t, step, ino, new) ==
  /\ thread[t].pc \notin {"idle", "done"}
  /\ step \in Steps \ {"idle", "alloc", "done"}
  /\ ino \in Inums /\ new \in Inums \cup {None}
  /\ Call(t).op = "sym_link" /\ step \in {"fill", "text", "enter"} => new \in Inums

(* Registers turned so are those of a thread within a call. *)
LEMMA TurnedIs ==
  ASSUME LockInv, NEW t \in Threads,
         NEW step, NEW ino, NEW new, NEW offset \in Nat, CanTurn(t, step, ino, new)
  PROVE  LET r == Turned(t, step, ino, new, offset)
         IN /\ Placed(t, r)
            /\ r.pc = step /\ r.ino = ino /\ r.new = new /\ r.call = Call(t)
<1>1. thread[t] \in Registers /\ Placed(t, thread[t])
  BY DEF LockInv, Placed
<1> QED
  BY <1>1 DEF Turned, Placed, Registers, Call, CanTurn

(* Where a thread goes with the registers it has. *)
LEMMA GotoIs ==
  ASSUME LockInv, NEW t \in Threads
  PROVE  /\ \A step : Goto(t, step) => thread' = [thread EXCEPT ![t] =
                        Turned(t, step, Ino(t), thread[t].new, thread[t].offset)]
         /\ \A step, ino : GotoWith(t, step, ino) => thread' = [thread EXCEPT ![t] =
                        Turned(t, step, ino, thread[t].new, thread[t].offset)]
<1>1. thread \in [Threads -> Registers]
  BY DEF LockInv
<1>2. \A step : [thread[t] EXCEPT !.pc = step]
                  = Turned(t, step, Ino(t), thread[t].new, thread[t].offset)
  BY <1>1 DEF Turned, Registers, Ino
<1>3. \A step, ino : [thread[t] EXCEPT !.pc = step, !.ino = ino]
                  = Turned(t, step, ino, thread[t].new, thread[t].offset)
  BY <1>1 DEF Turned, Registers
<1> HIDE DEF Turned
<1> QED
  BY <1>2, <1>3 DEF Goto, GotoWith

(* At the steps that hold no lock none is held. *)
LEMMA FreeOwns ==
  ASSUME NEW t, NEW r, r.pc \in Free
  PROVE  Owns(t, r, {})
BY DEF Owns

(* The end of a call is a move. *)
LEMMA FinishMoves ==
  ASSUME LockInv, NEW t \in Threads, thread[t].pc # "idle",
         NEW r, Finish(t, r), r.fs \in Tables, r.ret \in Int, r.out \in Seq(Bytes)
  PROVE  Moves(t)
<1> DEFINE q == [thread[t] EXCEPT !.pc = "done", !.ret = r.ret, !.out = r.out,
                                  !.ino = None, !.new = None, !.offset = 0]
<1>1. Placed(t, thread[t])
  BY DEF LockInv
<1>2. Placed(t, q) /\ q.pc = "done" /\ q.call = Call(t)
  BY <1>1 DEF Placed, Registers, Steps, Call
<1>3. thread' = [thread EXCEPT ![t] = q]
  BY DEF Finish
<1> HIDE DEF q
<1>4. Owns(t, q, {})
  <2>1. q.pc \in Free
    BY <1>2 DEF Free
  <2> QED
    BY <2>1, FreeOwns
<1>5. fs' \in Tables /\ locks' = Dropped(t) \cup {} /\ {} \subseteq locks
  BY DEF Finish
<1>6. \E L : Owns(t, q, L) /\ locks' = Dropped(t) \cup L /\ L \subseteq locks
  BY <1>4, <1>5
<1> QED
  BY <1>2, <1>3, <1>5, <1>6 DEF Moves

(* So is the return of a number. *)
LEMMA ReturnMoves ==
  ASSUME LockInv, NEW t \in Threads, thread[t].pc # "idle",
         NEW s \in Tables, NEW ret \in Int, Finish(t, Return(s, ret))
  PROVE  Moves(t)
<1> DEFINE r == Return(s, ret)
<1>1. r.fs = s /\ r.ret = ret /\ r.out = <<>> /\ <<>> \in Seq(Bytes)
  BY DEF Return
<1> HIDE DEF r
<1>2. Finish(t, r)
  BY DEF r
<1> QED
  BY <1>1, <1>2, FinishMoves

(* A thread that keeps its locks, or takes one more. *)
LEMMA KeepMoves ==
  ASSUME LockInv, NEW t \in Threads, fs' \in Tables,
         NEW r, thread' = [thread EXCEPT ![t] = r], Placed(t, r), Owns(t, r, Held(t)),
         thread[t].pc = "idle" \/ r.call = Call(t), UNCHANGED locks
  PROVE  Moves(t)
<1>1. locks' = Dropped(t) \cup Held(t) /\ Held(t) \subseteq locks
  BY DEF Dropped, Held
<1> QED
  BY <1>1 DEF Moves

(* A thread that takes one lock more. *)
LEMMA GrabMoves ==
  ASSUME LockInv, NEW t \in Threads, fs' \in Tables,
         NEW r, thread' = [thread EXCEPT ![t] = r], Placed(t, r), r.call = Call(t),
         NEW lock, NEW mode, CanLock(lock, mode), locks' = Grab(t, lock, mode),
         Owns(t, r, Held(t) \cup {[lock |-> lock, by |-> t, mode |-> mode]})
  PROVE  Moves(t)
<1> DEFINE k == [lock |-> lock, by |-> t, mode |-> mode]
           L == Held(t) \cup {k}
<1>1. locks' = Dropped(t) \cup L /\ L \subseteq locks \cup {k}
  BY DEF Dropped, Held, Grab
<1> QED
  BY <1>1 DEF Moves

(* A call holds nothing before its first lock, or before it locks again. *)
LEMMA FreeHolds ==
  ASSUME LockInv, NEW t \in Threads, thread[t].pc \in {"idle", "lock", "relock", "alloc"}
  PROVE  Held(t) = {}
<1>1. Owns(t, thread[t], Held(t))
  BY DEF LockInv
<1> QED
  BY <1>1 DEF Owns

-----------------------------------------------------------------------------
(* The beginning of a call takes no lock. *)
LEMMA BeginMoves ==
  ASSUME LockInv, NEW t \in Threads, NEW c \in Calls, NEW step, NEW ino \in Inums \cup {None},
         Begin(t, c, step, ino),
         step \in {"lock", "alloc", "done"} \/ (c.op = "close" /\ step = "file"),
         step \in {"lock", "file"} => ino \in Inums,
         c.op \in {"close", "write", "read"} /\ step # "done" => c.h \in Handles
  PROVE  Moves(t)
<1> DEFINE r == [thread[t] EXCEPT !.call = c, !.pc = step, !.ino = ino, !.before = Finished,
                                  !.ret = IF step = "done" THEN None ELSE 0]
<1>1. Placed(t, thread[t]) /\ thread[t].pc = "idle" /\ fs' \in Tables
  BY DEF LockInv, Begin
<1>2. Finished \in SUBSET Threads /\ t \notin Finished
  BY <1>1 DEF Finished
<1>3. r.pc = step /\ r.call = c /\ Placed(t, r)
  <2>1. thread[t] \in Registers /\ step \in Steps /\ None \in Int /\ 0 \in Int
    BY <1>1, Sizes DEF Placed, Steps
  <2>2. /\ r \in Registers /\ r.before = Finished
        /\ r.pc = step /\ r.call = c /\ r.ino = ino
    BY <1>2, <2>1 DEF Registers
  <2> HIDE DEF r
  <2> QED
    BY <1>2, <2>2 DEF Placed
<1>4. thread' = [thread EXCEPT ![t] = r]
  BY DEF Begin
<1> HIDE DEF r
<1>5. Owns(t, r, {})
  BY <1>3 DEF Owns, Free
<1>6. Held(t) = {} /\ UNCHANGED locks
  BY <1>1, FreeHolds DEF Begin
<1> QED
  BY <1>1, <1>3, <1>4, <1>5, <1>6, KeepMoves

(* tfs_lookup and get_open_file_entry, with which a call begins. *)
LEMMA CallMoves ==
  ASSUME LockInv, NEW t \in Threads, NEW c \in Calls, Find(t, c) \/ Entry(t, c)
  PROVE  Moves(t)
<1>1. fs \in Tables
  BY DEF LockInv
<1>2. CASE Find(t, c)
  <2> DEFINE i == Lookup(fs, c.path)
             step == IF i # None THEN "lock"
                     ELSE IF c.op = "open" /\ "creat" \in c.mode THEN "alloc" ELSE "done"
  <2>1. i \in Inums \cup {None}
    BY <1>1, LookupType
  <2>2. c.op \in {"open", "unlink", "link", "sym_link"} /\ Begin(t, c, step, i)
    BY <1>2 DEF Find
  <2>3. step \in {"lock", "alloc", "done"} /\ (step = "lock" => i \in Inums)
    BY <2>1
  <2> HIDE DEF i, step
  <2> QED
    BY <2>1, <2>2, <2>3, BeginMoves
<1>3. CASE Entry(t, c) /\ c.h \in fs.opened
  <2> DEFINE i == fs.file[c.h].inum
             step == IF c.op = "close" THEN "file" ELSE "lock"
  <2>1. c.h \in Handles /\ i \in Inums
    BY <1>1, <1>3 DEF Tables
  <2>2. Begin(t, c, step, i)
    BY <1>3 DEF Entry
  <2>3. step = "lock" \/ (c.op = "close" /\ step = "file")
    OBVIOUS
  <2> HIDE DEF i, step
  <2> QED
    BY <2>1, <2>2, <2>3, BeginMoves
<1>4. CASE Entry(t, c) /\ c.h \notin fs.opened
  <2>1. Begin(t, c, "done", None) /\ None \in Inums \cup {None}
    BY <1>4 DEF Entry
  <2> QED
    BY <2>1, BeginMoves
<1> QED
  BY <1>2, <1>3, <1>4

(* tfs_open. *)
LEMMA OpenLockMoves ==
  ASSUME LockInv, NEW t \in Threads, OpenLock(t) \/ OpenRelock(t)
  PROVE  Moves(t)
<1> DEFINE r(step) == Turned(t, step, Ino(t), thread[t].new, thread[t].offset)
           at == {"hop", "cut", "seek"}
<1>1. Placed(t, thread[t]) /\ fs' \in Tables
  BY DEF LockInv, OpenLock, OpenRelock
<1>2. Call(t).op = "open" /\ thread[t].pc \in {"lock", "relock"} /\ Ino(t) \in Inums
  BY <1>1 DEF OpenLock, OpenRelock, At, Placed, Call, Ino
<1>3. PICK step, mode : /\ thread' = [thread EXCEPT ![t] = r(step)]
                        /\ step \in at /\ (step = "hop" => mode = "w") /\ mode \in {"r", "w"}
                        /\ CanLock(InodeLock(Ino(t)), mode)
                        /\ locks' = Grab(t, InodeLock(Ino(t)), mode)
  <2>1. CASE OpenLock(t)
    BY <2>1, GotoIs DEF OpenLock
  <2>2. CASE OpenRelock(t)
    BY <2>2, GotoIs DEF OpenRelock
  <2> QED
    BY <2>1, <2>2
<1>4. /\ Placed(t, r(step)) /\ r(step).pc = step /\ r(step).ino = Ino(t)
      /\ r(step).call = Call(t)
  <2>1. thread[t].new \in Inums \cup {None} /\ thread[t].offset \in Nat
    BY <1>1, <1>3 DEF Placed, Registers
  <2>2. CanTurn(t, step, Ino(t), thread[t].new)
    BY <1>2, <1>3, <2>1 DEF CanTurn, Steps
  <2> QED
    BY <2>1, <2>2, TurnedIs
<1> HIDE DEF r
<1>5. Owns(t, r(step), Held(t) \cup {[lock |-> InodeLock(Ino(t)), by |-> t, mode |-> mode]})
  <2>1. Held(t) = {}
    BY <1>2, FreeHolds
  <2> QED
    BY <1>2, <1>3, <1>4, <2>1 DEF Owns
<1> QED
  BY <1>1, <1>3, <1>4, <1>5, GrabMoves

(* Following the links. *)
LEMMA OpenHopMoves ==
  ASSUME LockInv, NEW t \in Threads, OpenHop(t)
  PROVE  Moves(t)
<1> DEFINE r(step, i) == Turned(t, step, i, thread[t].new, thread[t].offset)
           ino == fs.inode[Ino(t)]
           next == Lookup(fs, fs.target[ino.block])
<1>1. /\ Placed(t, thread[t]) /\ fs \in Tables /\ Owns(t, thread[t], Held(t))
      /\ thread[t].new \in Inums \cup {None} /\ thread[t].offset \in Nat
  BY DEF LockInv, Placed, Registers
<1>2. Call(t).op = "open" /\ thread[t].pc = "hop" /\ Ino(t) \in Inums
  BY <1>1 DEF OpenHop, At, Placed, Call, Ino
<1>3. next \in Inums \cup {None}
  BY <1>1, LookupType
<1>4. ASSUME NEW step \in {"hop", "relock"}, NEW i \in Inums
      PROVE  Placed(t, r(step, i)) /\ r(step, i).pc = step /\ r(step, i).call = Call(t)
  <2>1. CanTurn(t, step, i, thread[t].new)
    BY <1>1, <1>2 DEF CanTurn, Steps
  <2> QED
    BY <1>1, <2>1, TurnedIs
<1>5. CASE ino.type # "link"
  <2>1. thread' = [thread EXCEPT ![t] = r("relock", Ino(t))] /\ locks' = Dropped(t) /\ fs' = fs
    BY <1>5, GotoIs DEF OpenHop
  <2>2. /\ Placed(t, r("relock", Ino(t))) /\ r("relock", Ino(t)).pc = "relock"
        /\ r("relock", Ino(t)).call = Call(t)
    BY <1>2, <1>4
  <2> HIDE DEF r
  <2>3. Owns(t, r("relock", Ino(t)), {})
    BY <2>2 DEF Owns, Free
  <2>4. \E L : Owns(t, r("relock", Ino(t)), L) /\ locks' = Dropped(t) \cup L /\ L \subseteq locks
    BY <2>1, <2>3
  <2> QED
    BY <1>1, <2>1, <2>2, <2>4 DEF Moves
<1>6. CASE ino.type = "link" /\ next = None
  <2>1. Finish(t, Return(fs, None))
    BY <1>6 DEF OpenHop
  <2> QED
    BY <1>1, <1>2, <2>1, Sizes, ReturnMoves
<1>7. CASE ino.type = "link" /\ next # None
  <2>1. thread' = [thread EXCEPT ![t] = r("hop", next)] /\ UNCHANGED locks /\ fs' = fs
    BY <1>7, GotoIs DEF OpenHop
  <2>2. /\ Placed(t, r("hop", next)) /\ r("hop", next).pc = "hop"
        /\ r("hop", next).call = Call(t)
    BY <1>3, <1>4, <1>7
  <2> HIDE DEF r, next
  <2>3. Owns(t, r("hop", next), Held(t))
    BY <1>1, <1>2, <2>2 DEF Owns, Free, Call
  <2> QED
    BY <1>1, <2>1, <2>2, <2>3, KeepMoves
<1> QED
  BY <1>5, <1>6, <1>7

(* Steps of a call that change neither its inode nor its locks. *)
GoOn == {<<"open", "cut", "shrink">>, <<"open", "shrink", "seek">>, <<"open", "fill", "enter">>,
         <<"open", "enter", "handle">>, <<"open", "enter", "undo">>, <<"sym_link", "fill", "text">>,
         <<"write", "space", "put">>}

(* They are moves. *)
LEMMA GoOnMoves ==
  ASSUME LockInv, NEW t \in Threads, fs' \in Tables, UNCHANGED locks, NEW step, Goto(t, step),
         <<Call(t).op, thread[t].pc, step>> \in GoOn
  PROVE  Moves(t)
<1> DEFINE r == Turned(t, step, Ino(t), thread[t].new, thread[t].offset)
<1>1. /\ Placed(t, thread[t]) /\ Owns(t, thread[t], Held(t))
      /\ thread[t].new \in Inums \cup {None} /\ thread[t].offset \in Nat
  BY DEF LockInv, Placed, Registers
<1>2. CanTurn(t, step, Ino(t), thread[t].new)
  BY <1>1 DEF CanTurn, GoOn, Steps, Placed, Ino, Call
<1>3. Placed(t, r) /\ r.pc = step /\ r.ino = Ino(t) /\ r.call = Call(t)
  BY <1>1, <1>2, TurnedIs
<1>4. thread' = [thread EXCEPT ![t] = r]
  BY GotoIs
<1> HIDE DEF r
<1>5. Owns(t, r, Held(t))
  BY <1>1, <1>3 DEF Owns, GoOn, Free, Ino, Call, Mode
<1> QED
  BY <1>3, <1>4, <1>5, KeepMoves

(* tfs_open of a file that is there. *)
LEMMA OpenMoves ==
  ASSUME LockInv, NEW t \in Threads,
         OpenCut(t) \/ OpenShrink(t) \/ OpenSeek(t) \/ OpenHandle(t)
  PROVE  Moves(t)
<1>1. /\ Placed(t, thread[t]) /\ fs \in Tables /\ Owns(t, thread[t], Held(t))
      /\ thread[t].new \in Inums \cup {None} /\ thread[t].offset \in Nat
  BY DEF LockInv, Placed, Registers
<1>2. /\ Call(t).op = "open" /\ thread[t].pc \in {"cut", "shrink", "seek", "handle"}
      /\ Ino(t) \in Inums
  BY <1>1 DEF OpenCut, OpenShrink, OpenSeek, OpenHandle, At, Placed, Call, Ino
<1>3. CASE OpenCut(t)
  <2>1. fs' \in Tables
    BY <1>1, <1>3 DEF OpenCut, Tables
  <2>2. <<Call(t).op, thread[t].pc, "shrink">> \in GoOn
    BY <1>2, <1>3 DEF OpenCut, At, GoOn
  <2> QED
    BY <1>3, <2>1, <2>2, GoOnMoves DEF OpenCut
<1>4. CASE OpenShrink(t)
  <2>1. fs' \in Tables
    <3>1. [fs.inode EXCEPT ![Ino(t)].size = 0] \in [Inums -> Inodes]
      <4>1. ASSUME NEW ino \in Inodes PROVE [ino EXCEPT !.size = 0] \in Inodes
        BY Sizes DEF Inodes
      <4>2. fs.inode \in [Inums -> Inodes]
        BY <1>1 DEF Tables
      <4> QED
        BY <4>1, <4>2
    <3> QED
      BY <1>1, <1>4, <3>1 DEF OpenShrink, Tables
  <2>2. <<Call(t).op, thread[t].pc, "seek">> \in GoOn
    BY <1>2, <1>4 DEF OpenShrink, At, GoOn
  <2> QED
    BY <1>4, <2>1, <2>2, GoOnMoves DEF OpenShrink
<1>5. CASE OpenSeek(t)
  <2> DEFINE offset == IF "append" \in Call(t).mode THEN fs.inode[Ino(t)].size ELSE 0
             r == Turned(t, "handle", Ino(t), thread[t].new, offset)
  <2>1. offset \in Nat
    BY <1>1, <1>2, Sizes DEF Tables, Inodes
  <2>2. CanTurn(t, "handle", Ino(t), thread[t].new)
    BY <1>1, <1>2 DEF CanTurn, Steps
  <2>3. thread' = [thread EXCEPT ![t] = r]
    <3>1. thread[t] \in Registers
      BY <1>1 DEF Placed
    <3>2. [thread[t] EXCEPT !.pc = "handle", !.offset = offset] = r
      BY <3>1 DEF Turned, Registers, Ino
    <3>3. thread' = [thread EXCEPT ![t] = [thread[t] EXCEPT !.pc = "handle", !.offset = offset]]
      BY <1>5 DEF OpenSeek, LockInv
    <3> HIDE DEF r, offset
    <3> QED
      BY <3>2, <3>3
  <2>4. Placed(t, r) /\ r.pc = "handle" /\ r.call = Call(t)
    BY <2>1, <2>2, TurnedIs
  <2> HIDE DEF r, offset
  <2>5. Owns(t, r, {})
    BY <2>4, FreeOwns DEF Free
  <2>6. \E L : Owns(t, r, L) /\ locks' = Dropped(t) \cup L /\ L \subseteq locks
    BY <1>5, <2>5 DEF OpenSeek
  <2> QED
    BY <1>1, <1>5, <2>3, <2>4, <2>6 DEF Moves, OpenSeek
<1>6. CASE OpenHandle(t)
  <2> DEFINE r == AddToOpenFileTable(fs, Ino(t), thread[t].offset)
  <2>1. r.fs \in Tables /\ r.ret \in Int
    <3>1. r.fs \in Tables /\ r.ret \in Handles \cup {None}
      BY <1>1, <1>2, AddToOpenFileTableType
    <3>2. Handles \cup {None} \subseteq Int
      BY Sizes
    <3> HIDE DEF r
    <3> QED
      BY <3>1, <3>2
  <2>2. r.out = <<>> /\ <<>> \in Seq(Bytes)
    BY DEF AddToOpenFileTable, Return
  <2>3. Finish(t, r)
    BY <1>6 DEF OpenHandle
  <2> HIDE DEF r
  <2> QED
    BY <1>2, <2>1, <2>2, <2>3, FinishMoves
<1> QED
  BY <1>3, <1>4, <1>5, <1>6

(* tfs_open of a new file. *)
LEMMA CreatMoves ==
  ASSUME LockInv, NEW t \in Threads, Creat(t) \/ CreatFill(t) \/ CreatEnter(t) \/ CreatUndo(t)
  PROVE  Moves(t)
<1>1. /\ Placed(t, thread[t]) /\ fs \in Tables /\ Owns(t, thread[t], Held(t))
      /\ thread[t].new \in Inums \cup {None} /\ thread[t].offset \in Nat
  BY DEF LockInv, Placed, Registers
<1>2. /\ Call(t).op = "open" /\ thread[t].pc \in {"alloc", "fill", "enter", "undo"}
      /\ thread[t].pc # "alloc" => Ino(t) \in Inums
      /\ Call(t) \in Calls
  BY <1>1 DEF Creat, CreatFill, CreatEnter, CreatUndo, At, Placed, Call, Ino
<1>3. CASE Creat(t)
  <2> DEFINE i == FirstFree(Inums, fs.inodes)
             r == Turned(t, "fill", i, thread[t].new, thread[t].offset)
  <2>1. i \in Inums \cup {None}
    BY FirstFreeType, Sizes
  <2>2. CASE i = None
    <3>1. Finish(t, Return(fs, None))
      BY <1>3, <2>2 DEF Creat
    <3> QED
      BY <1>1, <1>2, <3>1, Sizes, ReturnMoves
  <2>3. CASE i # None
    <3>1. /\ thread' = [thread EXCEPT ![t] = r] /\ UNCHANGED locks
          /\ fs' = [fs EXCEPT !.inodes = @ \cup {i}]
      BY <1>3, <2>3, GotoIs DEF Creat
    <3>2. CanTurn(t, "fill", i, thread[t].new)
      BY <1>1, <1>2, <2>1, <2>3 DEF CanTurn, Steps
    <3>3. Placed(t, r) /\ r.pc = "fill" /\ r.call = Call(t)
      BY <1>1, <3>2, TurnedIs
    <3> HIDE DEF r, i
    <3>4. Held(t) = {}
      BY <1>3, FreeHolds DEF Creat, At
    <3>5. Owns(t, r, Held(t))
      BY <1>2, <3>3, <3>4 DEF Owns
    <3>6. fs' \in Tables
      BY <1>1, <2>1, <2>3, <3>1 DEF Tables
    <3> QED
      BY <3>1, <3>3, <3>5, <3>6, KeepMoves
  <2> QED
    BY <2>2, <2>3
<1>4. CASE CreatFill(t)
  <2>1. fs' \in Tables
    <3>1. NewFile \in Inodes
      BY Sizes DEF NewFile, Inodes
    <3> QED
      BY <1>1, <1>4, <3>1 DEF CreatFill, Tables
  <2>2. <<Call(t).op, thread[t].pc, "enter">> \in GoOn
    BY <1>2, <1>4 DEF CreatFill, At, GoOn
  <2> QED
    BY <1>4, <2>1, <2>2, GoOnMoves DEF CreatFill
<1>5. CASE CreatEnter(t)
  <2> DEFINE step == IF Addable(fs, Call(t).path) THEN "handle" ELSE "undo"
  <2>1. Call(t).path \in Names
    BY <1>2, ThreadsAssumption DEF IsCall
  <2>2. thread[t].pc = "enter"
    BY <1>5 DEF CreatEnter, At
  <2>3. fs' \in Tables
    BY <1>1, <1>2, <1>5, <2>1, <2>2, AddDirEntryType DEF CreatEnter
  <2>4. <<Call(t).op, thread[t].pc, step>> \in GoOn
    BY <1>2, <2>2 DEF GoOn
  <2>5. Goto(t, step) /\ UNCHANGED locks
    BY <1>5 DEF CreatEnter
  <2> HIDE DEF step
  <2> QED
    BY <2>3, <2>4, <2>5, GoOnMoves
<1>6. CASE CreatUndo(t)
  <2>1. thread[t].pc = "undo" /\ Finish(t, Return(InodeDelete(fs, Ino(t)), None))
    BY <1>6 DEF CreatUndo, At
  <2>2. InodeDelete(fs, Ino(t)) \in Tables
    BY <1>1, <1>2, <2>1, InodeDeleteType
  <2> QED
    BY <2>1, <2>2, Sizes, ReturnMoves
<1> QED
  BY <1>3, <1>4, <1>5, <1>6

(* tfs_sym_link takes the locks of its target and of the link. *)
LEMMA SymLinkMoves ==
  ASSUME LockInv, NEW t \in Threads, SymLock(t) \/ SymFill(t) \/ SymText(t) \/ SymEnter(t)
  PROVE  Moves(t)
<1>1. /\ Placed(t, thread[t]) /\ thread[t] \in Registers
      /\ fs \in Tables /\ Owns(t, thread[t], Held(t))
      /\ thread[t].new \in Inums \cup {None} /\ thread[t].offset \in Nat
  BY DEF LockInv, Placed, Registers
<1>2. /\ Call(t).op = "sym_link" /\ thread[t].pc \in {"lock", "fill", "text", "enter"}
      /\ Ino(t) \in Inums /\ (thread[t].pc # "lock" => thread[t].new \in Inums)
      /\ Call(t) \in Calls
  BY <1>1 DEF SymLock, SymFill, SymText, SymEnter, At, Placed, Call, Ino
<1>3. Call(t).path \in Names /\ Call(t).name \in Names
  BY <1>2, ThreadsAssumption DEF IsCall
<1>4. CASE SymLock(t)
  <2> DEFINE i == FirstFree(Inums, fs.inodes)
             r == Turned(t, "fill", Ino(t), i, thread[t].offset)
  <2>1. i \in Inums \cup {None}
    BY FirstFreeType, Sizes
  <2>2. CASE i = None
    <3>1. Finish(t, Return(fs, None))
      BY <1>4, <2>2 DEF SymLock
    <3> QED
      BY <1>1, <1>2, <3>1, Sizes, ReturnMoves
  <2>3. CASE i # None
    <3>1. /\ thread' = [thread EXCEPT ![t].pc = "fill", ![t].new = i]
          /\ CanLock(InodeLock(Ino(t)), "r")
          /\ locks' = Grab(t, InodeLock(Ino(t)), "r") /\ fs' = [fs EXCEPT !.inodes = @ \cup {i}]
      BY <1>4, <2>3 DEF SymLock
    <3>2. thread' = [thread EXCEPT ![t] = r]
      <4>1. [thread[t] EXCEPT !.pc = "fill", !.new = i] = r
        BY <1>1 DEF Turned, Registers, Ino
      <4>2. thread' = [thread EXCEPT ![t] = [thread[t] EXCEPT !.pc = "fill", !.new = i]]
        BY <3>1 DEF LockInv
      <4> HIDE DEF r, i
      <4> QED
        BY <4>1, <4>2
    <3>3. CanTurn(t, "fill", Ino(t), i)
      BY <1>1, <1>2, <2>1, <2>3 DEF CanTurn, Steps
    <3>4. Placed(t, r) /\ r.pc = "fill" /\ r.call = Call(t) /\ r.ino = Ino(t)
      BY <1>1, <3>3, TurnedIs
    <3> HIDE DEF r, i
    <3>5. Held(t) = {}
      BY <1>4, FreeHolds DEF SymLock, At
    <3>6. Owns(t, r, Held(t) \cup {[lock |-> InodeLock(Ino(t)), by |-> t, mode |-> "r"]})
      BY <1>2, <3>4, <3>5 DEF Owns
    <3>7. fs' \in Tables
      BY <1>1, <2>1, <2>3, <3>1 DEF Tables
    <3> QED
      BY <3>1, <3>2, <3>4, <3>6, <3>7, GrabMoves
  <2> QED
    BY <2>2, <2>3
<1>5. CASE SymFill(t)
  <2> DEFINE r == FillLink(fs, thread[t].new)
  <2>1. thread[t].pc = "fill"
    BY <1>5 DEF SymFill, At
  <2>2. r.fs \in Tables /\ r.ret \in Inums \cup {None}
    BY <1>1, <1>2, <2>1, FillLinkType
  <2>3. r.out = <<>> /\ <<>> \in Seq(Bytes)
    BY DEF FillLink, Return
  <2>4. IF r.ret = None THEN Finish(t, r) ELSE fs' = r.fs /\ Goto(t, "text") /\ UNCHANGED locks
    BY <1>5 DEF SymFill
  <2>5. <<Call(t).op, thread[t].pc, "text">> \in GoOn
    BY <1>2, <2>1 DEF GoOn
  <2> HIDE DEF r
  <2>6. CASE r.ret = None
    <3>1. r.ret \in Int
      BY <2>6, Sizes
    <3> QED
      BY <2>1, <2>2, <2>3, <2>4, <2>6, <3>1, FinishMoves
  <2>7. CASE r.ret # None
    BY <2>2, <2>4, <2>5, <2>7, GoOnMoves
  <2> QED
    BY <2>6, <2>7
<1>6. CASE SymText(t)
  <2> DEFINE n == thread[t].new
             r == Turned(t, "enter", Ino(t), n, thread[t].offset)
  <2>1. thread[t].pc = "text" /\ n \in Inums
    BY <1>2, <1>6 DEF SymText, At
  <2>2. /\ thread' = [thread EXCEPT ![t] = r]
        /\ CanLock(InodeLock(n), "w") /\ locks' = Grab(t, InodeLock(n), "w")
    BY <1>6, GotoIs DEF SymText
  <2>3. CanTurn(t, "enter", Ino(t), n)
    BY <1>2, <2>1 DEF CanTurn, Steps
  <2>4. Placed(t, r) /\ r.pc = "enter" /\ r.call = Call(t) /\ r.ino = Ino(t) /\ r.new = n
    BY <1>1, <2>3, TurnedIs
  <2>5. fs' \in Tables
    BY <1>1, <1>3, <1>6, <2>1, StoreTargetType DEF SymText
  <2>6. Held(t) = {[lock |-> InodeLock(Ino(t)), by |-> t, mode |-> "r"]}
    BY <1>1, <1>2, <2>1 DEF Owns, Free, Ino, Call
  <2> HIDE DEF r, n
  <2>7. Owns(t, r, Held(t) \cup {[lock |-> InodeLock(n), by |-> t, mode |-> "w"]})
    <3>1. Held(t) \cup {[lock |-> InodeLock(n), by |-> t, mode |-> "w"]}
            = {[lock |-> InodeLock(Ino(t)), by |-> t, mode |-> "r"],
               [lock |-> InodeLock(n), by |-> t, mode |-> "w"]}
      BY <2>6
    <3> QED
      BY <1>2, <2>4, <3>1 DEF Owns
  <2> QED
    BY <2>2, <2>4, <2>5, <2>7, GrabMoves
<1>7. CASE SymEnter(t)
  <2> DEFINE s == AddDirEntry(fs, Call(t).name, thread[t].new)
  <2>1. thread[t].pc = "enter" /\ Finish(t, Return(s, 0))
    BY <1>7 DEF SymEnter, At
  <2>2. s \in Tables
    BY <1>1, <1>2, <1>3, <2>1, AddDirEntryType
  <2> HIDE DEF s
  <2> QED
    BY <2>1, <2>2, ReturnMoves
<1> QED
  BY <1>4, <1>5, <1>6, <1>7

(* A call that locks an inode, exclusively or as a reader. *)
LEMMA LocksInode ==
  ASSUME LockInv, NEW t \in Threads, fs' \in Tables, NEW step, Goto(t, step),
         thread[t].pc = "lock", NEW mode, CanLock(InodeLock(Ino(t)), mode),
         locks' = Grab(t, InodeLock(Ino(t)), mode),
         \/ <<Call(t).op, step, mode>> \in {<<"link", "enter", "w">>, <<"unlink", "drop", "w">>}
         \/ Call(t).op \in {"write", "read"} /\ step = "file" /\ mode = InodeMode(t)
  PROVE  Moves(t)
<1> DEFINE r == Turned(t, step, Ino(t), thread[t].new, thread[t].offset)
<1>1. /\ Placed(t, thread[t])
      /\ thread[t].new \in Inums \cup {None} /\ thread[t].offset \in Nat
  BY DEF LockInv, Placed, Registers
<1>2. CanTurn(t, step, Ino(t), thread[t].new)
  BY <1>1 DEF CanTurn, Steps, Placed, Ino
<1>3. Placed(t, r) /\ r.pc = step /\ r.ino = Ino(t) /\ r.call = Call(t)
  BY <1>1, <1>2, TurnedIs
<1>4. thread' = [thread EXCEPT ![t] = r]
  BY GotoIs
<1>5. Held(t) = {}
  BY FreeHolds
<1> HIDE DEF r
<1>6. Owns(t, r, Held(t) \cup {[lock |-> InodeLock(Ino(t)), by |-> t, mode |-> mode]})
  BY <1>3, <1>5 DEF Owns, Mode, InodeMode
<1> QED
  BY <1>3, <1>4, <1>6, GrabMoves

(* tfs_link and tfs_unlink. *)
LEMMA LinkMoves ==
  ASSUME LockInv, NEW t \in Threads,
         LinkLock(t) \/ LinkEnter(t) \/ UnlinkLock(t) \/ UnlinkDrop(t)
  PROVE  Moves(t)
<1>1. Placed(t, thread[t]) /\ fs \in Tables
  BY DEF LockInv
<1>2. /\ Call(t).op \in {"link", "unlink"} /\ thread[t].pc \in {"lock", "enter", "drop"}
      /\ Ino(t) \in Inums /\ Call(t) \in Calls
  BY <1>1 DEF LinkLock, LinkEnter, UnlinkLock, UnlinkDrop, At, Placed, Call, Ino
<1>3. CASE LinkLock(t) /\ fs.inode[Ino(t)].type = "link"
  <2>1. Finish(t, Return(fs, None))
    BY <1>3 DEF LinkLock
  <2> QED
    BY <1>1, <1>2, <2>1, Sizes, ReturnMoves
<1>4. CASE LinkLock(t) /\ fs.inode[Ino(t)].type # "link"
  <2>1. fs' \in Tables
    <3>1. ASSUME NEW ino \in Inodes PROVE [ino EXCEPT !.count = @ + 1] \in Inodes
      BY DEF Inodes
    <3>2. fs.inode \in [Inums -> Inodes]
      BY <1>1 DEF Tables
    <3>3. [fs.inode EXCEPT ![Ino(t)].count = @ + 1] \in [Inums -> Inodes]
      BY <3>1, <3>2
    <3>4. fs' = [fs EXCEPT !.inode = [fs.inode EXCEPT ![Ino(t)].count = @ + 1]]
      BY <1>1, <1>4 DEF LinkLock, Tables
    <3> HIDE DEF Inodes
    <3> QED
      BY <1>1, <3>3, <3>4 DEF Tables
  <2>2. /\ Goto(t, "enter") /\ thread[t].pc = "lock" /\ CanLock(InodeLock(Ino(t)), "w")
        /\ locks' = Grab(t, InodeLock(Ino(t)), "w")
        /\ <<Call(t).op, "enter", "w">> = <<"link", "enter", "w">>
    BY <1>4 DEF LinkLock, At
  <2> QED
    BY <2>1, <2>2, LocksInode
<1>5. CASE LinkEnter(t)
  <2> DEFINE s == AddDirEntry(fs, Call(t).name, Ino(t))
  <2>1. Call(t).op = "link" /\ Finish(t, Return(s, 0))
    BY <1>5 DEF LinkEnter, At
  <2>2. Call(t).name \in Names
    BY <1>2, <2>1, ThreadsAssumption DEF IsCall
  <2>3. s \in Tables
    BY <1>1, <1>2, <2>2, AddDirEntryType
  <2> HIDE DEF s
  <2> QED
    BY <1>2, <2>1, <2>3, ReturnMoves
<1>6. CASE UnlinkLock(t)
  <2>1. fs' \in Tables
    BY <1>1, <1>6, ClearDirEntryType DEF UnlinkLock
  <2>2. /\ Goto(t, "drop") /\ thread[t].pc = "lock" /\ CanLock(InodeLock(Ino(t)), "w")
        /\ locks' = Grab(t, InodeLock(Ino(t)), "w")
        /\ <<Call(t).op, "drop", "w">> = <<"unlink", "drop", "w">>
    BY <1>6 DEF UnlinkLock, At
  <2> QED
    BY <2>1, <2>2, LocksInode
<1>7. CASE UnlinkDrop(t)
  <2> DEFINE r == DropLink(fs, Ino(t))
  <2>1. r.fs \in Tables /\ r.ret \in Int
    BY <1>1, <1>2, DropLinkType
  <2>2. r.out = <<>> /\ <<>> \in Seq(Bytes)
    BY DEF DropLink, Return
  <2>3. Finish(t, r)
    BY <1>7 DEF UnlinkDrop
  <2> HIDE DEF r
  <2> QED
    BY <1>2, <2>1, <2>2, <2>3, FinishMoves
<1> QED
  BY <1>3, <1>4, <1>5, <1>6, <1>7

(* tfs_write, tfs_read and tfs_close take the lock of the open file, which *)
(* the second and third hold already with the inode's.                     *)
LEMMA LocksFile ==
  ASSUME LockInv, NEW t \in Threads, fs' \in Tables, NEW step, NEW offset \in Nat,
         thread' = [thread EXCEPT ![t] = Turned(t, step, Ino(t), thread[t].new, offset)],
         thread[t].pc = "file", CanLock(FileLock(Call(t).h), Mode(thread[t])),
         locks' = Grab(t, FileLock(Call(t).h), Mode(thread[t])),
         \/ Call(t).op = "write" /\ step \in {"space", "put"}
         \/ Call(t).op = "read" /\ step = "copy"
  PROVE  Moves(t)
<1> DEFINE r == Turned(t, step, Ino(t), thread[t].new, offset)
           m == Mode(thread[t])
           h == Call(t).h
<1>1. /\ Placed(t, thread[t]) /\ Owns(t, thread[t], Held(t))
      /\ thread[t].new \in Inums \cup {None}
  BY DEF LockInv, Placed, Registers
<1>2. CanTurn(t, step, Ino(t), thread[t].new)
  BY <1>1 DEF CanTurn, Steps, Placed, Ino
<1>3. Placed(t, r) /\ r.pc = step /\ r.ino = Ino(t) /\ r.call = Call(t)
  BY <1>1, <1>2, TurnedIs
<1>4. Held(t) = {[lock |-> InodeLock(Ino(t)), by |-> t, mode |-> m]}
  BY <1>1 DEF Owns, Free, Ino, Call
<1>5. Mode(r) = m
  BY <1>3 DEF Mode, Call
<1> HIDE DEF r, m
<1>6. Owns(t, r, Held(t) \cup {[lock |-> FileLock(h), by |-> t, mode |-> m]})
  <2>1. Held(t) \cup {[lock |-> FileLock(h), by |-> t, mode |-> m]}
          = {[lock |-> InodeLock(Ino(t)), by |-> t, mode |-> m],
             [lock |-> FileLock(h), by |-> t, mode |-> m]}
    BY <1>4
  <2> QED
    BY <1>3, <1>5, <2>1 DEF Owns
<1> QED
  BY <1>3, <1>6, GrabMoves DEF r, m

(* tfs_write, tfs_read and tfs_close. *)
LEMMA DataMoves ==
  ASSUME LockInv, NEW t \in Threads,
         \/ DataLock(t) \/ WriteLock(t) \/ WriteSpace(t) \/ WritePut(t)
         \/ ReadLock(t) \/ ReadCopy(t) \/ CloseFile(t)
  PROVE  Moves(t)
<1> DEFINE h == Call(t).h
<1>1. /\ Placed(t, thread[t]) /\ fs \in Tables /\ thread[t] \in Registers
      /\ thread[t].new \in Inums \cup {None} /\ thread[t].offset \in Nat
  BY DEF LockInv, Placed, Registers
<1>2. /\ Call(t).op \in {"write", "read", "close"}
      /\ thread[t].pc \in {"lock", "file", "space", "put", "copy"}
      /\ h \in Handles /\ Call(t) \in Calls
  BY <1>1 DEF DataLock, WriteLock, WriteSpace, WritePut, ReadLock, ReadCopy, CloseFile, At,
              Placed, Call
<1>3. CASE DataLock(t)
  <2>1. /\ fs' \in Tables /\ Goto(t, "file") /\ thread[t].pc = "lock"
        /\ Call(t).op \in {"write", "read"} /\ CanLock(InodeLock(Ino(t)), InodeMode(t))
        /\ locks' = Grab(t, InodeLock(Ino(t)), InodeMode(t))
    BY <1>1, <1>3 DEF DataLock, At
  <2> QED
    BY <2>1, LocksInode
<1>4. CASE WriteLock(t)
  <2> DEFINE step == IF ToWrite(fs, h, Call(t).text) # 0 /\ fs.inode[fs.file[h].inum].size = 0
                       THEN "space" ELSE "put"
  <2>1. Goto(t, step) /\ thread[t].pc = "file" /\ Call(t).op = "write" /\ fs' \in Tables
    BY <1>1, <1>4 DEF WriteLock, At
  <2>2. Mode(thread[t]) = "w"
    BY <2>1 DEF Mode, Call
  <2>3. CanLock(FileLock(h), "w") /\ locks' = Grab(t, FileLock(h), "w") /\ step \in {"space", "put"}
    BY <1>4 DEF WriteLock
  <2> HIDE DEF step
  <2>4. thread' = [thread EXCEPT ![t] = Turned(t, step, Ino(t), thread[t].new, thread[t].offset)]
    BY <2>1, GotoIs
  <2> QED
    BY <1>1, <2>1, <2>2, <2>3, <2>4, LocksFile
<1>5. CASE WriteSpace(t)
  <2> DEFINE r == Reserve(fs, h)
  <2>1. r.fs \in Tables /\ r.ret \in Int
    BY <1>1, <1>2, ReserveType
  <2>2. r.out = <<>> /\ <<>> \in Seq(Bytes)
    BY DEF Reserve, Return
  <2>3. /\ thread[t].pc = "space" /\ Call(t).op = "write"
        /\ IF r.ret = None THEN Finish(t, r) ELSE fs' = r.fs /\ Goto(t, "put") /\ UNCHANGED locks
    BY <1>5 DEF WriteSpace, At
  <2>4. <<Call(t).op, thread[t].pc, "put">> \in GoOn
    BY <2>3 DEF GoOn
  <2> HIDE DEF r
  <2>5. CASE r.ret = None
    BY <2>1, <2>2, <2>3, <2>5, FinishMoves
  <2>6. CASE r.ret # None
    BY <2>1, <2>3, <2>4, <2>6, GoOnMoves
  <2> QED
    BY <2>5, <2>6
<1>6. CASE WritePut(t)
  <2> DEFINE r == Put(fs, h, Call(t).text)
  <2>1. thread[t].pc = "put" /\ Call(t).op = "write" /\ Finish(t, r)
    BY <1>6 DEF WritePut, At
  <2>2. Call(t).text \in Seq(Bytes)
    BY <1>2, <2>1, ThreadsAssumption DEF IsCall
  <2>3. r.fs \in Tables /\ r.ret \in Int
    BY <1>1, <1>2, <2>2, PutType
  <2>4. r.out = <<>> /\ <<>> \in Seq(Bytes)
    BY DEF Put, Return
  <2> HIDE DEF r
  <2> QED
    BY <2>1, <2>3, <2>4, FinishMoves
<1>7. CASE ReadLock(t)
  <2> DEFINE n == ToRead(fs, h, Call(t).len)
  <2>1. /\ thread[t].pc = "file" /\ Call(t).op = "read" /\ fs' \in Tables
        /\ CanLock(FileLock(h), "r") /\ locks' = Grab(t, FileLock(h), "r")
        /\ thread' = [thread EXCEPT ![t].pc = "copy", ![t].offset = n]
    BY <1>1, <1>7 DEF ReadLock, At
  <2>2. n \in Nat
    <3>1. Call(t).len \in Nat
      BY <1>2, <2>1, ThreadsAssumption DEF IsCall
    <3>2. n \in 0 .. Call(t).len
      BY <1>1, <1>2, <3>1, ToReadType
    <3> QED
      BY <3>1, <3>2
  <2>3. Mode(thread[t]) = "r"
    BY <2>1 DEF Mode, Call
  <2> HIDE DEF n
  <2>4. [thread[t] EXCEPT !.pc = "copy", !.offset = n] = Turned(t, "copy", Ino(t), thread[t].new, n)
    BY <1>1 DEF Turned, Registers, Ino
  <2>5. thread' = [thread EXCEPT ![t] = [thread[t] EXCEPT !.pc = "copy", !.offset = n]]
    BY <2>1 DEF LockInv
  <2> QED
    BY <2>1, <2>2, <2>3, <2>4, <2>5, LocksFile
<1>8. CASE ReadCopy(t)
  <2> DEFINE r == Copy(fs, h, thread[t].offset)
  <2>1. thread[t].pc = "copy" /\ Finish(t, r)
    BY <1>8 DEF ReadCopy, At
  <2>2. r.fs \in Tables /\ r.ret \in Int /\ r.out \in Seq(Bytes)
    BY <1>1, <1>2, CopyType
  <2> HIDE DEF r
  <2> QED
    BY <2>1, <2>2, FinishMoves
<1>9. CASE CloseFile(t)
  <2> DEFINE r == Close(fs, h)
  <2>1. /\ thread[t].pc = "file"
        /\ Finish(t, IF r.ret = None THEN Return(fs, Abort) ELSE r)
    BY <1>9 DEF CloseFile, At
  <2>2. r.fs \in Tables /\ r.ret \in Int
    BY <1>1, CloseType
  <2>3. r.out = <<>> /\ <<>> \in Seq(Bytes) /\ Abort \in Int
    BY DEF Close, Return, Abort
  <2> HIDE DEF r
  <2>4. CASE r.ret = None
    BY <1>1, <2>1, <2>3, <2>4, ReturnMoves
  <2>5. CASE r.ret # None
    BY <2>1, <2>2, <2>3, <2>5, FinishMoves
  <2> QED
    BY <2>4, <2>5
<1> QED
  BY <1>3, <1>4, <1>5, <1>6, <1>7, <1>8, <1>9

-----------------------------------------------------------------------------
(* Every step within a call is a move. *)
LEMMA StepMoves ==
  ASSUME LockInv, NEW t \in Threads, Step(t)
  PROVE  Moves(t)
BY OpenLockMoves, OpenHopMoves, OpenMoves, CreatMoves, SymLinkMoves, LinkMoves, DataMoves DEF Step

(* LockInv is inductive. *)
LEMMA NextLockInv == LockInv /\ [Next]_vars => LockInv'
<1> SUFFICES ASSUME LockInv, [Next]_vars PROVE LockInv'
  OBVIOUS
<1>1. ASSUME NEW t \in Threads, Step(t) \/ \E c \in Calls : Find(t, c) \/ Entry(t, c)
      PROVE  LockInv'
  <2>1. Moves(t)
    BY <1>1, CallMoves, StepMoves
  <2> QED
    BY <2>1, MovesInv
<1>2. CASE UNCHANGED vars
  BY <1>2 DEF vars, LockInv, Placed, Owns, Held, Exclusion, InodeLock, FileLock, Mode
<1> QED
  BY <1>1, <1>2 DEF Next, Terminated

(* It holds when the threads start. *)
LEMMA InitLockInv == Init => LockInv
<1> SUFFICES ASSUME Init PROVE LockInv
  OBVIOUS
<1>1. PICK script \in Scripts :
        fs = FoldLeft(LAMBDA s, c : Effect(s, c).fs, InitialState, script)
  BY DEF Init
<1>2. fs \in Tables
  <2>1. FoldLeft(LAMBDA s, c : Effect(s, c).fs, InitialState, script) \in Tables
    BY ScriptType
  <2> QED
    BY <1>1, <2>1
<1>3. Idle \in Registers /\ Idle.pc = "idle" /\ Idle.before = {} /\ Idle.call.op = "none"
  <2>1. "idle" \in Steps /\ <<>> \in Seq(Bytes) /\ 0 \in Int /\ 0 \in Nat
    BY DEF Steps
  <2> QED
    BY <2>1 DEF Idle, NoCall, Registers
<1>4. thread = [t \in Threads |-> Idle] /\ locks = {}
  BY DEF Init
<1>5. ASSUME NEW t \in Threads
      PROVE  Placed(t, thread[t]) /\ Owns(t, thread[t], Held(t))
  <2>1. Held(t) = {} /\ thread[t] = Idle /\ Idle.pc \in Free
    BY <1>3, <1>4 DEF Held, Free
  <2> QED
    BY <1>3, <2>1, FreeOwns DEF Placed
<1> QED
  BY <1>2, <1>3, <1>4, <1>5 DEF LockInv, Exclusion

(* It is an invariant. *)
LEMMA Locked == Spec => []LockInv
BY InitLockInv, NextLockInv, PTL DEF Spec

(* It has the types in it. *)
LEMMA LockedTypes == LockInv => TypeOK
<1> SUFFICES ASSUME LockInv PROVE TypeOK
  OBVIOUS
<1>1. ASSUME NEW k \in locks PROVE k.by \in Running /\ k.mode \in {"r", "w"}
  <2>1. k.by \in Threads /\ k \in Held(k.by) /\ Owns(k.by, thread[k.by], Held(k.by))
    BY DEF LockInv, Held
  <2>2. thread[k.by].pc \notin {"idle", "done"} /\ k.mode \in {"r", "w"}
    BY <2>1 DEF Owns, Free, Mode
  <2> QED
    BY <2>1, <2>2 DEF Running
<1>2. fs.inodes \subseteq Inums /\ fs.blocks \subseteq Blocks /\ fs.opened \subseteq Handles
  BY DEF LockInv, Tables
<1>3. ASSUME NEW t \in Threads
      PROVE  /\ thread[t].pc \in Steps /\ thread[t].before \subseteq Threads \ {t}
             /\ {Ino(t), thread[t].new} \subseteq Inums \cup {None}
  BY DEF LockInv, Placed, Registers, Ino
<1> QED
  BY <1>1, <1>2, <1>3 DEF TypeOK

(* The registers and the tables keep their types, and only threads in a    *)
(* call hold locks.                                                        *)
THEOREM TypesCorrect == Spec => []TypeOK
<1>1. LockInv => TypeOK
  BY LockedTypes
<1> QED
  BY <1>1, Locked, PTL

(* The steps of a call between its first and its last access to the inode  *)
(* it has locked, and those that have locked it exclusively.               *)
Inside(t) ==
  \/ Call(t).op = "open" /\ thread[t].pc \in {"cut", "shrink", "seek"}
  \/ Call(t).op = "sym_link" /\ thread[t].pc \in {"fill", "text", "enter"}
  \/ Call(t).op \in {"write", "read"} /\ thread[t].pc \in {"file", "space", "put", "copy"}
  \/ <<Call(t).op, thread[t].pc>> \in {<<"link", "enter">>, <<"unlink", "drop">>}
Changes(t) == Inside(t) /\ Call(t).op \in {"write", "link", "unlink"}

WritersAlone ==
  \A t, u \in Threads : t # u /\ Changes(t) /\ Inside(u) => Ino(t) # Ino(u)

(* Who is inside an inode holds its lock, and for writing when it changes it. *)
LEMMA InsideHolds ==
  ASSUME LockInv, NEW t \in Threads, Inside(t)
  PROVE  \E k \in locks : /\ k.by = t /\ k.lock = InodeLock(Ino(t))
                          /\ Changes(t) => k.mode = "w"
<1>1. Owns(t, thread[t], Held(t)) /\ Held(t) \subseteq locks
  BY DEF LockInv, Held
<1> DEFINE k(m) == [lock |-> InodeLock(Ino(t)), by |-> t, mode |-> m]
<1>2. CASE Call(t).op = "open"
  <2>1. ~Changes(t) /\ thread[t].pc \in {"cut", "shrink", "seek"}
    BY <1>2 DEF Inside, Changes
  <2>2. \E m : k(m) \in Held(t)
    BY <1>1, <1>2, <2>1 DEF Owns, Free, Call, Ino
  <2> QED
    BY <1>1, <2>1, <2>2
<1>3. CASE Call(t).op = "sym_link"
  <2>1. ~Changes(t) /\ thread[t].pc \in {"fill", "text", "enter"}
    BY <1>3 DEF Inside, Changes
  <2>2. k("r") \in Held(t)
    BY <1>1, <1>3, <2>1 DEF Owns, Free, Call, Ino
  <2> QED
    BY <1>1, <2>1, <2>2
<1>4. CASE Call(t).op \in {"write", "read"}
  <2>1. thread[t].pc \in {"file", "space", "put", "copy"}
    BY <1>4 DEF Inside
  <2>2. k(Mode(thread[t])) \in Held(t)
    BY <1>1, <1>4, <2>1 DEF Owns, Free, Call, Ino
  <2>3. Changes(t) => Mode(thread[t]) = "w"
    BY <1>4 DEF Changes, Mode, Call
  <2> QED
    BY <1>1, <2>2, <2>3
<1>5. CASE Call(t).op \in {"link", "unlink"}
  <2>1. <<Call(t).op, thread[t].pc>> \in {<<"link", "enter">>, <<"unlink", "drop">>}
    BY <1>5 DEF Inside
  <2>2. k("w") \in Held(t)
    BY <1>1, <1>5, <2>1 DEF Owns, Free, Call, Ino
  <2> QED
    BY <1>1, <2>2
<1> QED
  BY <1>2, <1>3, <1>4, <1>5 DEF Inside

(* So no other call is inside it. *)
LEMMA LockedAlone == LockInv => WritersAlone
<1> SUFFICES ASSUME LockInv, NEW t \in Threads, NEW u \in Threads, t # u,
                    Changes(t), Inside(u), Ino(t) = Ino(u)
             PROVE  FALSE
  BY DEF WritersAlone
<1>1. PICK k \in locks : k.by = t /\ k.lock = InodeLock(Ino(t)) /\ k.mode = "w"
  BY InsideHolds DEF Changes
<1>2. PICK l \in locks : l.by = u /\ l.lock = InodeLock(Ino(t))
  BY InsideHolds
<1> QED
  BY <1>1, <1>2 DEF LockInv, Exclusion

(* Between the accesses of a write, link or unlink to the inode it has     *)
(* locked no other call is inside that inode: the size, the block and the  *)
(* link count are read and set in one go.  (tfs_open truncates under a     *)
(* reader's lock when it came through a link, and is not among them.)      *)
THEOREM WritersAreAlone == Spec => []WritersAlone
BY Locked, LockedAlone, PTL

-----------------------------------------------------------------------------
(***************************************************************************)
(* Waiting.  The locks have an order: an inode's before an open file's.    *)
(* Only tfs_sym_link takes a second inode's.                               *)
(***************************************************************************)
NextToLink(t) == Call(t).op = "sym_link" /\ thread[t].pc = "text"

(* When everybody waits, somebody makes a symbolic link: the others hold   *)
(* nothing, or hold an inode and find their open file free.                *)
LEMMA SomebodyGoesOn ==
  ASSUME LockInv, NEW t \in Running, \A u \in Running : Waits(u)
  PROVE  \E u \in Running : NextToLink(u)
<1>1. \A u \in Threads : Owns(u, thread[u], Held(u))
  BY DEF LockInv
(* Who holds an open file waits for nothing. *)
<1>2. ASSUME NEW k \in locks, NEW h, k.lock = FileLock(h) PROVE FALSE
  <2>1. k.by \in Threads /\ k \in Held(k.by) /\ Owns(k.by, thread[k.by], Held(k.by))
    BY <1>1 DEF LockInv, Held
  <2>2. thread[k.by].pc \in {"space", "put", "copy"}
    BY <1>2, <2>1 DEF Owns, FileLock, InodeLock
  <2>3. k.by \in Running /\ ~Waits(k.by)
    BY <2>1, <2>2 DEF Running, Waits
  <2> QED
    BY <2>3
(* So nobody waits for one, and who holds an inode is making a link. *)
<1>3. ASSUME NEW u \in Running PROVE thread[u].pc # "file"
  BY <1>2 DEF Waits, CanLock, Running
<1>4. ASSUME NEW k \in locks, NEW i, k.lock = InodeLock(i)
      PROVE  k.by \in Running /\ NextToLink(k.by)
  <2>1. k.by \in Threads /\ k \in Held(k.by) /\ Owns(k.by, thread[k.by], Held(k.by))
    BY <1>1 DEF LockInv, Held
  <2>2. k.by \in Running /\ thread[k.by].pc \notin Free
    BY <2>1 DEF Owns, Running, Free
  <2>3. Waits(k.by) /\ thread[k.by].pc # "file"
    BY <1>3, <2>2
  <2>4. thread[k.by].pc = "text"
    BY <2>2, <2>3 DEF Waits, Free
  <2>5. Call(k.by).op = "sym_link"
    BY <2>1, <2>4 DEF Owns, Free, Call
  <2> QED
    BY <2>2, <2>4, <2>5 DEF NextToLink
<1>5. Waits(t) /\ thread[t].pc # "file"
  BY <1>3
<1>6. \E k \in locks : \E i : k.lock = InodeLock(i)
  BY <1>5 DEF Waits, CanLock
<1> QED
  BY <1>4, <1>6

(* A deadlock, of however many threads, has a tfs_sym_link in it, which    *)
(* has locked its target and waits for the inode it has just made.         *)
THEOREM OnlySymLinksDeadlock ==
  Spec => [](NoDeadlock \/ \E t \in Running : NextToLink(t))
<1>1. LockInv => NoDeadlock \/ \E t \in Running : NextToLink(t)
  BY SomebodyGoesOn DEF NoDeadlock
<1> QED
  BY <1>1, Locked, PTL

(* Threads that make no symbolic links, as the broker's, never deadlock.   *)
THEOREM DeadlockFree ==
  ASSUME \A c \in Calls : c.op # "sym_link"
  PROVE  Spec => []NoDeadlock
<1>1. LockInv => NoDeadlock
  <2> SUFFICES ASSUME LockInv, NEW t \in Running, NextToLink(t) PROVE FALSE
    BY SomebodyGoesOn DEF NoDeadlock
  <2>1. Call(t) \in Calls
    BY DEF LockInv, Placed, NextToLink, Running, Call
  <2> QED
    BY <2>1 DEF NextToLink
<1> QED
  BY <1>1, Locked, PTL

-----------------------------------------------------------------------------
(***************************************************************************)
(* Closing.  A handle that is closed while another thread uses it makes    *)
(* remove_from_open_file_table fail, or serves what it is given next.      *)
(***************************************************************************)
OnHandle == {"close", "write", "read"}

(* Callers close a handle when no other call uses it. *)
ClosesAlone ==
  \A c, d \in Calls : c.op = "close" /\ d.op \in OnHandle /\ c.h = d.h => Apart(c, d) /\ Apart(d, c)

HandlesStay == \A t \in Running : Call(t).op \in OnHandle => Call(t).h \in fs.opened

OneCloser ==
  \A t, u \in Running :
    t # u /\ Call(t).op = "close" /\ Call(u).op \in OnHandle => Call(t).h # Call(u).h

(* Steps within a call. *)
LEMMA SameCall ==
  ASSUME LockInv, NEW t \in Threads, Step(t)
  PROVE  /\ thread[t].pc \notin {"idle", "done"}
         /\ \E r : thread' = [thread EXCEPT ![t] = r] /\ r.call = Call(t)
<1>1. thread[t].pc \notin {"idle", "done"}
  BY DEF Step, At, OpenLock, OpenHop, OpenRelock, OpenCut, OpenShrink, OpenSeek, OpenHandle,
         Creat, CreatFill, CreatEnter, CreatUndo, SymLock, SymFill, SymText, SymEnter,
         LinkLock, LinkEnter, UnlinkLock, UnlinkDrop, DataLock, WriteLock, WriteSpace, WritePut,
         ReadLock, ReadCopy, CloseFile
<1>2. Moves(t)
  BY StepMoves
<1> QED
  BY <1>1, <1>2 DEF Moves

(* Only tfs_close takes a handle away, its own. *)
LEMMA OnlyClosesClose ==
  ASSUME LockInv, NEW t \in Threads, Step(t)
  PROVE  \/ fs.opened \subseteq fs'.opened
         \/ /\ Call(t).op = "close" /\ thread'[t].pc = "done"
            /\ fs.opened \ {Call(t).h} \subseteq fs'.opened
<1>1. fs \in Tables /\ thread \in [Threads -> Registers]
  BY DEF LockInv
<1>2. ASSUME NEW s, NEW ret, Finish(t, Return(s, ret)) PROVE fs' = s
  BY <1>2 DEF Finish, Return
<1>3. \A name, i : AddDirEntry(fs, name, i).opened = fs.opened
  BY DEF AddDirEntry
<1>4. \A i : InodeDelete(fs, i).opened = fs.opened
  BY DEF InodeDelete
<1>5. \A i : FillLink(fs, i).fs.opened = fs.opened
  BY DEF FillLink, Return
<1>6. \A i, target : StoreTarget(fs, i, target).opened = fs.opened
  BY DEF StoreTarget, Store
<1>7. \A i : DropLink(fs, i).fs.opened = fs.opened
  BY <1>4 DEF DropLink, Return
<1>8. \A h : Reserve(fs, h).fs.opened = fs.opened
  BY DEF Reserve, Return
<1>9. \A h, s : Put(fs, h, s).fs.opened = fs.opened
  BY DEF Put, Return, Store
<1>10. \A h, n : Copy(fs, h, n).fs.opened = fs.opened
  <2>1. ASSUME NEW h, NEW n, NEW k PROVE [fs EXCEPT !.file[h].offset = k].opened = fs.opened
    BY <1>1 DEF Tables
  <2>2. TAKE h, n
  <2>3. Copy(fs, h, n).fs = fs \/ \E k : Copy(fs, h, n).fs = [fs EXCEPT !.file[h].offset = k]
    BY DEF Copy, Return
  <2> QED
    BY <2>1, <2>3
<1>11. \A i, n : fs.opened \subseteq AddToOpenFileTable(fs, i, n).fs.opened
  BY DEF AddToOpenFileTable, Return
<1>12. \A name : ClearDirEntry(fs, name).opened = fs.opened
  BY DEF ClearDirEntry
<1>13. CASE OpenLock(t) \/ OpenRelock(t) \/ OpenCut(t) \/ OpenShrink(t) \/ OpenSeek(t)
  BY <1>1, <1>13 DEF OpenLock, OpenRelock, OpenCut, OpenShrink, OpenSeek, Tables
<1>14. CASE OpenHop(t)
  BY <1>14 DEF OpenHop, Finish, Return
<1>15. CASE OpenHandle(t)
  BY <1>11, <1>15 DEF OpenHandle, Finish
<1>16. CASE Creat(t) \/ CreatFill(t)
  <2>1. \A i : [fs EXCEPT !.inodes = @ \cup {i}].opened = fs.opened
    BY <1>1 DEF Tables
  <2>2. \A i, ino : [fs EXCEPT !.inode[i] = ino].opened = fs.opened
    BY <1>1 DEF Tables
  <2>3. CASE Creat(t)
    BY <1>2, <2>1, <2>3 DEF Creat
  <2>4. CASE CreatFill(t)
    BY <2>2, <2>4 DEF CreatFill
  <2> QED
    BY <1>16, <2>3, <2>4
<1>17. CASE CreatEnter(t) \/ CreatUndo(t)
  BY <1>3, <1>4, <1>17 DEF CreatEnter, CreatUndo, Finish, Return
<1>18. CASE SymLock(t)
  <2>1. \A i : [fs EXCEPT !.inodes = @ \cup {i}].opened = fs.opened
    BY <1>1 DEF Tables
  <2> QED
    BY <1>2, <1>18, <2>1 DEF SymLock
<1>19. CASE SymFill(t) \/ SymText(t) \/ SymEnter(t)
  BY <1>3, <1>5, <1>6, <1>19 DEF SymFill, SymText, SymEnter, Finish, Return
<1>20. CASE LinkLock(t) \/ LinkEnter(t)
  <2>1. \A i : [fs EXCEPT !.inode[i].count = @ + 1].opened = fs.opened
    BY <1>1 DEF Tables
  <2>2. CASE LinkLock(t)
    BY <1>2, <2>1, <2>2 DEF LinkLock
  <2>3. CASE LinkEnter(t)
    BY <1>2, <1>3, <2>3 DEF LinkEnter
  <2> QED
    BY <1>20, <2>2, <2>3
<1>21. CASE UnlinkLock(t) \/ UnlinkDrop(t)
  BY <1>7, <1>12, <1>21 DEF UnlinkLock, UnlinkDrop, Finish
<1>22. CASE DataLock(t) \/ WriteLock(t) \/ WriteSpace(t) \/ WritePut(t)
            \/ ReadLock(t) \/ ReadCopy(t)
  BY <1>8, <1>9, <1>10, <1>22 DEF DataLock, WriteLock, WriteSpace, WritePut, ReadLock, ReadCopy,
     Finish
<1>23. CASE CloseFile(t)
  <2>1. Call(t).op = "close" /\ thread'[t].pc = "done"
    BY <1>1, <1>23 DEF CloseFile, At, Finish
  <2>2. fs.opened \ {Call(t).h} \subseteq fs'.opened
    BY <1>23 DEF CloseFile, Close, Finish, Return
  <2> QED
    BY <2>1, <2>2
<1> QED
  BY <1>13, <1>14, <1>15, <1>16, <1>17, <1>18, <1>19, <1>20, <1>21, <1>22, <1>23 DEF Step

(* Handles stay open and have one closer, step by step. *)
LEMMA NextHandles ==
  ASSUME ClosesAlone, LockInv, HandlesStay, OneCloser, [Next]_vars
  PROVE  HandlesStay' /\ OneCloser'
<1>1. thread \in [Threads -> Registers] /\ fs \in Tables
  BY DEF LockInv
<1>2. ASSUME NEW t \in Threads, Step(t) PROVE HandlesStay' /\ OneCloser'
  <2>1. PICK r : thread' = [thread EXCEPT ![t] = r] /\ r.call = Call(t)
    BY <1>2, SameCall
  <2>2. t \in Running
    BY <1>2, SameCall DEF Running
  <2>3. Running' \subseteq Running /\ \A u \in Running : Call(u)' = Call(u)
    BY <1>1, <2>1, <2>2 DEF Running, Call
  <2>4. HandlesStay'
    <3>1. CASE fs.opened \subseteq fs'.opened
      BY <2>3, <3>1 DEF HandlesStay
    <3>2. CASE /\ Call(t).op = "close" /\ thread'[t].pc = "done"
               /\ fs.opened \ {Call(t).h} \subseteq fs'.opened
      <4>1. t \notin Running'
        BY <3>2 DEF Running
      <4>2. \A u \in Running' : Call(u)'.op \in OnHandle => Call(u).h # Call(t).h
        BY <2>2, <2>3, <3>2, <4>1 DEF OneCloser
      <4> QED
        BY <2>3, <3>2, <4>2 DEF HandlesStay
    <3> QED
      BY <1>2, <3>1, <3>2, OnlyClosesClose
  <2> QED
    BY <2>3, <2>4 DEF OneCloser
<1>3. ASSUME NEW t \in Threads, NEW c \in Calls, Find(t, c) \/ Entry(t, c)
      PROVE  HandlesStay' /\ OneCloser'
  <2>1. PICK step, ino : /\ Begin(t, c, step, ino)
                         /\ c.op \in OnHandle /\ step # "done" => c.h \in fs.opened
    BY <1>3 DEF Find, Entry, OnHandle
  <2>2. /\ fs' = fs /\ \A u \in Running : ~Apart(c, Call(u))
        /\ Running' \subseteq Running \cup {t} /\ (t \in Running' => step # "done")
        /\ Call(t)' = c /\ t \notin Running
        /\ \A u \in Running : Call(u)' = Call(u) /\ Call(u) \in Calls
    BY <1>1, <2>1 DEF Begin, Running, Call, LockInv, Placed
  <2>3. HandlesStay'
    BY <2>1, <2>2 DEF HandlesStay
  <2> QED
    BY <2>2, <2>3 DEF OneCloser, ClosesAlone, OnHandle
<1>4. CASE UNCHANGED vars
  BY <1>4 DEF vars, HandlesStay, OneCloser, Running, Call
<1> QED
  BY <1>2, <1>3, <1>4 DEF Next, Terminated

(* If callers close a handle only when no other call uses it, then the     *)
(* handle of every tfs_read, tfs_write and tfs_close under way stays open  *)
(* to its end, whatever else is called: none works on a handle that was    *)
(* given to somebody else meanwhile, and none is closed twice.             *)
THEOREM HandlesStayOpen == ClosesAlone => (Spec => []HandlesStay)
<1> SUFFICES ASSUME ClosesAlone PROVE Spec => []HandlesStay
  OBVIOUS
<1>1. Init => HandlesStay /\ OneCloser
  <2>1. Idle.pc = "idle"
    BY DEF Idle
  <2>2. Init => Running = {}
    BY <2>1 DEF Init, Running
  <2> QED
    BY <2>2 DEF HandlesStay, OneCloser
<1>2. LockInv /\ HandlesStay /\ OneCloser /\ [Next]_vars => (HandlesStay /\ OneCloser)'
  BY NextHandles
<1> QED
  BY <1>1, <1>2, Locked, PTL DEF Spec

-----------------------------------------------------------------------------
(***************************************************************************)
(* Removing.  Names, link counts and inodes, while calls are under way.    *)
(***************************************************************************)
(* The names a call finds or makes. *)
NamesOf(c) == IF c.op \in {"open", "unlink"} THEN {c.path}
              ELSE IF c.op \in {"link", "sym_link"} THEN {c.path, c.name} ELSE {}

(* Callers remove a name when no other call uses it. *)
UnlinksAlone ==
  \A c, d \in Calls : c.op = "unlink" /\ c.path \in NamesOf(d) => Apart(c, d) /\ Apart(d, c)

OneRemover ==
  \A t, u \in Running :
    t # u /\ Call(t).op = "unlink" => Call(t).path \notin NamesOf(Call(u))

(* Before a link or a removal locks the inode it has found, while it has a *)
(* link more than entries, and while a call has an inode that no entry     *)
(* leads to yet.                                                           *)
Asks(r) == r.call.op \in {"link", "unlink"} /\ r.pc = "lock"
Counts(r) == <<r.call.op, r.pc>> \in {<<"link", "enter">>, <<"unlink", "drop">>}
Makes(r) == \/ r.call.op = "open" /\ r.pc \in {"fill", "enter", "undo"}
            \/ r.call.op = "sym_link" /\ r.pc \in {"fill", "text", "enter"}
Made(r) == IF r.call.op = "open" THEN r.ino ELSE r.new

(* What the tables s have for a thread with the registers r. *)
Stands(s, r) ==
  /\ Asks(r) => IF r.call.op = "unlink" THEN Lookup(s, r.call.path) = r.ino
                ELSE \E e \in Entries : s.dir[e] = [name |-> r.call.path, inum |-> r.ino]
  /\ Counts(r) => /\ r.ino \in s.inodes \ {Root}
                  /\ Cardinality(Naming(s, r.ino)) + 1 <= s.inode[r.ino].count
  /\ Makes(r) => /\ Made(r) \in s.inodes \ {Root} /\ Naming(s, Made(r)) = {}
                 /\ r.pc # "fill" => s.inode[Made(r)].count >= 1

(* The inode that q makes is not the one that r makes, or counts. *)
Distinct(q, r) == Makes(q) => /\ Makes(r) => Made(q) # Made(r)
                              /\ Counts(r) => Made(q) # r.ino

NameInv == /\ NamesOK(fs)
           /\ \A t \in Threads : Stands(fs, thread[t])
           /\ \A t, u \in Threads : t # u => Distinct(thread[t], thread[u])
           /\ OneRemover


-----------------------------------------------------------------------------
(* The tables u differ from s in the entries and the link count of the     *)
(* inode j, and in entries of that name: with gone one is no more.         *)
Touches(s, u, j, name, gone) ==
  /\ \A i \in s.inodes \ {j} : /\ i \in u.inodes /\ u.inode[i].count = s.inode[i].count
                               /\ Naming(u, i) = Naming(s, i)
  /\ \A n : n # name => Lookup(u, n) = Lookup(s, n)
  /\ \A e \in Entries : s.dir[e].inum # None /\ ~(gone /\ s.dir[e].name = name)
                         => u.dir[e] = s.dir[e]

(* The directory stays. *)
LEMMA DirSame ==
  ASSUME NEW s, NEW u, u.dir = s.dir, NEW j, NEW name, NEW gone,
         \A i \in s.inodes \ {j} : i \in u.inodes /\ u.inode[i].count = s.inode[i].count
  PROVE  Touches(s, u, j, name, gone)
<1>1. \A i : Naming(u, i) = Naming(s, i)
  BY DEF Naming
<1>2. \A n : Lookup(u, n) = Lookup(s, n)
  BY LookupSame
<1> QED
  BY <1>1, <1>2 DEF Touches

(* A name leads where it did, when the used entries that bear it do. *)
LEMMA LookupKept ==
  ASSUME NEW s, NEW u, NEW n,
         \A x \in Entries : (u.dir[x].inum # None /\ u.dir[x].name = n)
                             <=> (s.dir[x].inum # None /\ s.dir[x].name = n),
         \A x \in Entries : s.dir[x].inum # None /\ s.dir[x].name = n
                            => u.dir[x].inum = s.dir[x].inum
  PROVE  Lookup(u, n) = Lookup(s, n)
<1> DEFINE F == {x \in Entries : s.dir[x].inum # None /\ s.dir[x].name = n}
<1>1. F = {x \in Entries : u.dir[x].inum # None /\ u.dir[x].name = n}
  OBVIOUS
<1>2. Lookup(s, n) = (IF F = {} THEN None ELSE s.dir[Min(F)].inum)
  BY DEF Lookup
<1>3. Lookup(u, n) = (IF F = {} THEN None ELSE u.dir[Min(F)].inum)
  BY <1>1 DEF Lookup
<1>4. F # {} => Min(F) \in F
  BY Sizes, MinIsLeast
<1>5. F # {} => u.dir[Min(F)].inum = s.dir[Min(F)].inum
  BY <1>4
<1> HIDE DEF F
<1> QED
  BY <1>2, <1>3, <1>5

(* add_dir_entry takes an entry that is not in use. *)
LEMMA AddDirEntryTouches ==
  ASSUME NEW s \in Tables, NEW name, NEW i \in Inums
  PROVE  LET u == AddDirEntry(s, name, i)
         IN u.inodes = s.inodes /\ u.inode = s.inode /\ Touches(s, u, i, name, FALSE)
<1> DEFINE e == Min({x \in Entries : s.dir[x].inum = None})
           u == [s EXCEPT !.dir[e] = [name |-> name, inum |-> i]]
<1>1. CASE ~Addable(s, name)
  BY <1>1, DirSame DEF AddDirEntry
<1>2. CASE Addable(s, name)
  <2>1. e \in Entries /\ s.dir[e].inum = None
    BY <1>2, FreeEntry DEF Addable
  <2>2. AddDirEntry(s, name, i) = u
    BY <1>2 DEF AddDirEntry
  <2> HIDE DEF e
  <2>3. /\ u.dir = [s.dir EXCEPT ![e] = [name |-> name, inum |-> i]]
        /\ u.inodes = s.inodes /\ u.inode = s.inode /\ DOMAIN s.dir = Entries
    BY DEF Tables
  <2> HIDE DEF u
  <2>4. i # None /\ \A k \in s.inodes : k # None
    BY Sizes DEF Tables
  <2>5. \A x \in Entries : s.dir[x].inum # None => u.dir[x] = s.dir[x]
    BY <2>1, <2>3
  <2>6. \A k \in s.inodes \ {i} : Naming(u, k) = Naming(s, k)
    BY <2>1, <2>3, <2>4 DEF Naming
  <2>7. ASSUME NEW n, n # name PROVE Lookup(u, n) = Lookup(s, n)
    <3>1. \A x \in Entries : (u.dir[x].inum # None /\ u.dir[x].name = n)
                             <=> (s.dir[x].inum # None /\ s.dir[x].name = n)
      BY <2>1, <2>3, <2>7
    <3> QED
      BY <2>5, <3>1, LookupKept
  <2> QED
    BY <2>2, <2>3, <2>5, <2>6, <2>7 DEF Touches
<1> QED
  BY <1>1, <1>2

(* clear_dir_entry removes an entry of the inode that the name leads to. *)
LEMMA ClearDirEntryTouches ==
  ASSUME NEW s \in Tables, NamesOK(s), NEW name \in Names, Lookup(s, name) # None
  PROVE  Touches(s, ClearDirEntry(s, name), Lookup(s, name), name, TRUE)
<1> DEFINE i == Lookup(s, name)
           found == {e \in Entries : s.dir[e].name = name}
           e == Min(found)
           u == [s EXCEPT !.dir[e] = [name |-> NoName, inum |-> None]]
<1>1. found = {x \in Entries : s.dir[x].inum # None /\ s.dir[x].name = name}
  BY TfsAssumption DEF NamesOK
<1>2. found # {} /\ e \in found /\ i = s.dir[e].inum
  BY <1>1, LookupFound
<1>3. ClearDirEntry(s, name) = u
  BY <1>2 DEF ClearDirEntry
<1> HIDE DEF i, found, e
<1>4. e \in Entries /\ s.dir[e].inum = i /\ s.dir[e].name = name /\ i # None
  BY <1>2 DEF found, i
<1>5. /\ u.dir = [s.dir EXCEPT ![e] = [name |-> NoName, inum |-> None]]
      /\ u.inodes = s.inodes /\ u.inode = s.inode /\ DOMAIN s.dir = Entries
  BY DEF Tables
<1> HIDE DEF u
<1>6. \A x \in Entries : s.dir[x].name # name => u.dir[x] = s.dir[x]
  BY <1>4, <1>5
<1>7. \A k \in s.inodes \ {i} : Naming(u, k) = Naming(s, k)
  <2>1. \A k \in s.inodes : k # None
    BY Sizes DEF Tables
  <2> QED
    BY <1>4, <1>5, <2>1 DEF Naming
<1>8. ASSUME NEW n, n # name PROVE Lookup(u, n) = Lookup(s, n)
  <2>1. \A x \in Entries : (u.dir[x].inum # None /\ u.dir[x].name = n)
                           <=> (s.dir[x].inum # None /\ s.dir[x].name = n)
    BY <1>4, <1>5, <1>8
  <2>2. \A x \in Entries : s.dir[x].name = n => u.dir[x].inum = s.dir[x].inum
    BY <1>6, <1>8
  <2> QED
    BY <2>1, <2>2, LookupKept
<1>9. Touches(s, u, i, name, TRUE)
  BY <1>5, <1>6, <1>7, <1>8 DEF Touches
<1> QED
  BY <1>3, <1>9 DEF i

(* A step is of one thread, which goes on with its call. *)
LEMMA StepsAlone ==
  ASSUME LockInv, NEW t \in Threads, Step(t)
  PROVE  /\ thread[t].pc \notin {"idle", "done"} /\ thread'[t].call = Call(t)
         /\ \A u \in Threads \ {t} : thread'[u] = thread[u]
         /\ Running' \subseteq Running
<1>1. PICK r : thread' = [thread EXCEPT ![t] = r] /\ r.call = Call(t)
  BY SameCall
<1>2. thread[t].pc \notin {"idle", "done"} /\ thread \in [Threads -> Registers]
  BY SameCall DEF LockInv
<1> QED
  BY <1>1, <1>2 DEF Running

(* So what callers keep apart stays apart. *)
LEMMA StepOneRemover ==
  ASSUME LockInv, OneRemover, NEW t \in Threads, Step(t)
  PROVE  OneRemover'
<1>1. Running' \subseteq Running /\ \A u \in Running : Call(u)' = Call(u)
  BY StepsAlone DEF Running, Call
<1> QED
  BY <1>1 DEF OneRemover

(* A step that touches no inode that another call makes or counts, and no  *)
(* name that another removes, leaves the other what it stands on.          *)
LEMMA OthersStand ==
  ASSUME LockInv, NameInv, NEW t \in Threads, NEW u \in Threads, t # u, t \in Running,
         NEW s, NEW j, NEW name, NEW gone \in BOOLEAN, Touches(fs, s, j, name, gone),
         name \in NamesOf(Call(t)) \cup {NoName},
         gone => Call(t).op = "unlink",
         Makes(thread[u]) => Made(thread[u]) # j,
         Counts(thread[u]) => Ino(u) # j
  PROVE  Stands(s, thread[u])
<1> DEFINE r == thread[u]
<1>1. Stands(fs, r) /\ Placed(u, r)
  BY DEF NameInv, LockInv
<1>2. CASE Asks(r)
  <2>1. u \in Running /\ Call(u) = r.call /\ r.call \in Calls /\ r.ino \in Inums
    BY <1>1, <1>2 DEF Asks, Running, Call, Placed
  <2>2. r.call.path \in Names /\ r.call.path # NoName /\ r.call.path \in NamesOf(r.call)
    BY <1>2, <2>1, ThreadsAssumption, TfsAssumption DEF IsCall, Asks, NamesOf
  <2>3. CASE r.call.op = "unlink"
    <3>1. r.call.path \notin NamesOf(Call(t))
      BY <2>1, <2>3 DEF NameInv, OneRemover
    <3>2. r.call.path # name
      BY <2>2, <3>1
    <3>3. Lookup(s, r.call.path) = Lookup(fs, r.call.path)
      BY <3>2 DEF Touches
    <3> QED
      BY <1>1, <1>2, <2>3, <3>3 DEF Stands, Asks, Counts, Makes
  <2>4. CASE r.call.op = "link"
    <3>1. PICK e \in Entries : fs.dir[e] = [name |-> r.call.path, inum |-> r.ino]
      BY <1>1, <1>2, <2>4 DEF Stands
    <3>2. fs.dir[e].inum # None /\ fs.dir[e].name = r.call.path
      BY <2>1, <3>1, Sizes
    <3>3. ~(gone /\ fs.dir[e].name = name)
      <4> SUFFICES ASSUME gone, r.call.path = name PROVE FALSE
        BY <3>2
      <4>1. Call(t).op = "unlink" /\ Call(t).path = name
        BY <2>2 DEF NamesOf
      <4> QED
        BY <2>1, <2>2, <4>1 DEF NameInv, OneRemover
    <3>4. s.dir[e] = fs.dir[e]
      BY <3>2, <3>3 DEF Touches
    <3> QED
      BY <1>2, <2>4, <3>1, <3>4 DEF Stands, Asks, Counts, Makes
  <2> QED
    BY <1>2, <2>3, <2>4 DEF Asks
<1>3. CASE Counts(r)
  <2>1. r.ino \in fs.inodes \ {Root} /\ r.ino # j
        /\ Cardinality(Naming(fs, r.ino)) + 1 <= fs.inode[r.ino].count
    BY <1>1, <1>3 DEF Stands, Ino
  <2>2. r.ino \in s.inodes /\ s.inode[r.ino].count = fs.inode[r.ino].count
        /\ Naming(s, r.ino) = Naming(fs, r.ino)
    BY <2>1 DEF Touches
  <2>3. ~Asks(r) /\ ~Makes(r)
    BY <1>3 DEF Asks, Counts, Makes
  <2> QED
    BY <2>1, <2>2, <2>3 DEF Stands
<1>4. CASE Makes(r)
  <2>1. Made(r) \in fs.inodes \ {Root} /\ Made(r) # j /\ Naming(fs, Made(r)) = {}
        /\ (r.pc # "fill" => fs.inode[Made(r)].count >= 1)
    BY <1>1, <1>4 DEF Stands
  <2>2. Made(r) \in s.inodes /\ s.inode[Made(r)].count = fs.inode[Made(r)].count
        /\ Naming(s, Made(r)) = Naming(fs, Made(r))
    BY <2>1 DEF Touches
  <2>3. ~Asks(r) /\ ~Counts(r)
    BY <1>4 DEF Asks, Counts, Makes
  <2> QED
    BY <2>1, <2>2, <2>3 DEF Stands
<1> QED
  BY <1>2, <1>3, <1>4 DEF Stands

(* Such a step, when the thread that takes it stands after it. *)
LEMMA StepNames ==
  ASSUME LockInv, NameInv, NEW t \in Threads, Step(t),
         NEW j, NEW name, NEW gone \in BOOLEAN, Touches(fs, fs', j, name, gone),
         name \in NamesOf(Call(t)) \cup {NoName},
         gone => Call(t).op = "unlink",
         \A u \in Threads \ {t} : /\ Makes(thread[u]) => Made(thread[u]) # j
                                  /\ Counts(thread[u]) => Ino(u) # j,
         NamesOK(fs'), Stands(fs', thread'[t]),
         \A u \in Threads \ {t} : /\ Distinct(thread'[t], thread[u])
                                  /\ Distinct(thread[u], thread'[t])
  PROVE  NameInv'
<1>1. t \in Running /\ \A u \in Threads \ {t} : thread'[u] = thread[u]
  BY StepsAlone DEF Running
<1>2. ASSUME NEW u \in Threads PROVE Stands(fs', thread'[u])
  <2>1. CASE u = t
    BY <2>1
  <2>2. CASE u # t
    <3>1. thread'[u] = thread[u]
      BY <1>1, <2>2
    <3>2. Stands(fs', thread[u])
      BY <1>1, <2>2, OthersStand
    <3> QED
      BY <3>1, <3>2
  <2> QED
    BY <2>1, <2>2
<1>3. ASSUME NEW u \in Threads, NEW v \in Threads, u # v
      PROVE  Distinct(thread'[u], thread'[v])
  BY <1>1, <1>3 DEF NameInv
<1>4. OneRemover'
  BY StepOneRemover DEF NameInv
<1> QED
  BY <1>2, <1>3, <1>4 DEF NameInv

(* Steps of a call that neither makes nor counts an inode leave the names. *)
LEMMA QuietStep ==
  ASSUME LockInv, NameInv, NEW t \in Threads, Step(t),
         fs'.dir = fs.dir, fs'.inodes = fs.inodes,
         \A i \in fs.inodes : fs'.inode[i].count = fs.inode[i].count,
         \/ thread'[t].pc = "done"
         \/ Call(t).op \in OnHandle
         \/ Call(t).op = "open" /\ thread'[t].pc \notin {"fill", "enter", "undo"}
  PROVE  NameInv'
<1>1. Touches(fs, fs', None, NoName, FALSE)
  BY DirSame
<1>2. NamesOK(fs')
  BY NamesFrame DEF NameInv
<1>3. thread'[t].call = Call(t)
  BY StepsAlone
<1>4. ~Asks(thread'[t]) /\ ~Counts(thread'[t]) /\ ~Makes(thread'[t])
  BY <1>3 DEF Asks, Counts, Makes, OnHandle
<1>5. fs.inodes \subseteq Inums /\ None \notin Inums
  BY Sizes DEF LockInv, Tables
<1>6. \A u \in Threads : /\ Makes(thread[u]) => Made(thread[u]) # None
                         /\ Counts(thread[u]) => Ino(u) # None
  BY <1>5 DEF NameInv, Stands, Ino
<1>7. \A r : Distinct(thread'[t], r) /\ Distinct(r, thread'[t])
  BY <1>4 DEF Distinct
<1> QED
  BY <1>1, <1>2, <1>4, <1>6, <1>7, StepNames DEF Stands

(* tfs_open of a file that is there. *)
LEMMA OpenNamesKept ==
  ASSUME LockInv, NameInv, NEW t \in Threads,
         \/ OpenLock(t) \/ OpenHop(t) \/ OpenRelock(t) \/ OpenCut(t) \/ OpenShrink(t)
         \/ OpenSeek(t) \/ OpenHandle(t)
  PROVE  NameInv'
<1>1. Step(t) /\ Call(t).op = "open" /\ fs \in Tables /\ Ino(t) \in Inums
      /\ thread \in [Threads -> Registers]
  BY DEF Step, OpenLock, OpenHop, OpenRelock, OpenCut, OpenShrink, OpenSeek, OpenHandle, At,
         LockInv, Placed, Ino, Call
<1>2. ASSUME NEW s, NEW ret, Finish(t, Return(s, ret)) PROVE fs' = s /\ thread'[t].pc = "done"
  BY <1>1, <1>2 DEF Finish, Return
<1>3. ASSUME NEW step, Goto(t, step) PROVE thread'[t].pc = step
  BY <1>1, <1>3 DEF Goto
<1>4. CASE OpenLock(t) \/ OpenRelock(t) \/ OpenSeek(t)
  <2>1. fs' = fs /\ thread'[t].pc \in {"hop", "cut", "seek", "handle"}
    <3>1. CASE OpenLock(t)
      BY <1>3, <3>1 DEF OpenLock
    <3>2. CASE OpenRelock(t)
      BY <1>3, <3>2 DEF OpenRelock
    <3>3. CASE OpenSeek(t)
      BY <1>1, <3>3 DEF OpenSeek, Registers
    <3> QED
      BY <1>4, <3>1, <3>2, <3>3
  <2> QED
    BY <1>1, <2>1, QuietStep
<1>5. CASE OpenHop(t)
  <2>1. fs' = fs /\ thread'[t].pc \in {"hop", "relock", "done"}
    <3>1. ASSUME NEW i, GotoWith(t, "hop", i) PROVE thread'[t].pc = "hop"
      BY <1>1, <3>1 DEF GotoWith, Registers
    <3> QED
      BY <1>2, <1>3, <1>5, <3>1 DEF OpenHop
  <2> QED
    BY <1>1, <2>1, QuietStep
<1>6. CASE OpenCut(t)
  <2>1. fs'.dir = fs.dir /\ fs'.inodes = fs.inodes /\ fs'.inode = fs.inode
    BY <1>6 DEF OpenCut
  <2>2. thread'[t].pc = "shrink"
    BY <1>3, <1>6 DEF OpenCut
  <2> QED
    BY <1>1, <2>1, <2>2, QuietStep
<1>7. CASE OpenShrink(t)
  <2>1. fs'.dir = fs.dir /\ fs'.inodes = fs.inodes
        /\ \A i \in Inums : fs'.inode[i].count = fs.inode[i].count
    BY <1>1, <1>7 DEF OpenShrink, Tables, Inodes
  <2>2. thread'[t].pc = "seek" /\ fs.inodes \subseteq Inums
    BY <1>1, <1>3, <1>7 DEF OpenShrink, Tables
  <2> QED
    BY <1>1, <2>1, <2>2, QuietStep
<1>8. CASE OpenHandle(t)
  <2>1. fs'.dir = fs.dir /\ fs'.inodes = fs.inodes /\ fs'.inode = fs.inode
    BY <1>8 DEF OpenHandle, Finish, AddToOpenFileTable, Return
  <2>2. thread'[t].pc = "done"
    BY <1>1, <1>8 DEF OpenHandle, Finish
  <2> QED
    BY <1>1, <2>1, <2>2, QuietStep
<1> QED
  BY <1>4, <1>5, <1>6, <1>7, <1>8

(* tfs_write, tfs_read and tfs_close. *)
LEMMA DataNamesKept ==
  ASSUME LockInv, NameInv, NEW t \in Threads,
         \/ DataLock(t) \/ WriteLock(t) \/ WriteSpace(t) \/ WritePut(t)
         \/ ReadLock(t) \/ ReadCopy(t) \/ CloseFile(t)
  PROVE  NameInv'
<1> DEFINE h == Call(t).h
<1>1. /\ Step(t) /\ Call(t).op \in OnHandle /\ fs \in Tables /\ h \in Handles /\ Call(t) \in Calls
      /\ fs.inodes \subseteq Inums
  BY DEF Step, DataLock, WriteLock, WriteSpace, WritePut, ReadLock, ReadCopy, CloseFile, At,
         LockInv, Placed, OnHandle, Call, Tables
<1>2. /\ fs'.dir = fs.dir /\ fs'.inodes = fs.inodes
      /\ \A i \in Inums : fs'.inode[i].count = fs.inode[i].count
  <2>1. CASE DataLock(t) \/ WriteLock(t) \/ ReadLock(t)
    BY <2>1 DEF DataLock, WriteLock, ReadLock
  <2>2. CASE WriteSpace(t)
    <3>1. fs' = Reserve(fs, h).fs
      BY <2>2 DEF WriteSpace, Finish
    <3> QED
      BY <1>1, <3>1 DEF Reserve, Return, Tables, Inodes
  <2>3. CASE WritePut(t)
    <3>1. fs' = Put(fs, h, Call(t).text).fs
      BY <2>3 DEF WritePut, Finish
    <3>2. Call(t).text \in Seq(Bytes)
      BY <1>1, <2>3, ThreadsAssumption DEF WritePut, At, IsCall
    <3>3. ToWrite(fs, h, Call(t).text) \in Int
      BY <1>1, <3>2, ToWriteType
    <3> QED
      BY <1>1, <3>1, <3>2, <3>3, PutMoves
  <2>4. CASE ReadCopy(t)
    <3>1. fs' = Copy(fs, h, thread[t].offset).fs
      BY <2>4 DEF ReadCopy, Finish
    <3> QED
      BY <1>1, <3>1, CopyMoves
  <2>5. CASE CloseFile(t)
    <3>1. fs' = fs \/ fs' = [fs EXCEPT !.opened = @ \ {h}]
      BY <2>5 DEF CloseFile, Finish, Close, Return
    <3> QED
      BY <1>1, <3>1 DEF Tables
  <2> QED
    BY <2>1, <2>2, <2>3, <2>4, <2>5
<1> QED
  BY <1>1, <1>2, QuietStep

(* The registers after a step. *)
LEMMA AfterStep ==
  ASSUME LockInv, NEW t \in Threads
  PROVE  LET q == thread[t]
             r == thread'[t]
         IN /\ \A step : Goto(t, step) =>
                 /\ r.pc = step /\ r.ino = q.ino
                 /\ r.call = q.call /\ r.new = q.new /\ r.offset = q.offset /\ r.ret = q.ret
            /\ \A step, i : GotoWith(t, step, i) =>
                 /\ r.pc = step /\ r.ino = i
                 /\ r.call = q.call /\ r.new = q.new /\ r.offset = q.offset /\ r.ret = q.ret
            /\ \A e : Finish(t, e) => /\ fs' = e.fs /\ r.pc = "done" /\ r.call = q.call
                                     /\ r.offset = 0 /\ r.ret = e.ret
            /\ \A s, ret : Finish(t, Return(s, ret)) =>
                 fs' = s /\ r.pc = "done" /\ r.call = q.call /\ r.offset = 0 /\ r.ret = ret
<1>1. thread[t] \in Registers /\ thread \in [Threads -> Registers]
  BY DEF LockInv
<1>2. \A s, ret : Return(s, ret).fs = s /\ Return(s, ret).ret = ret
  BY DEF Return
<1>3. ASSUME NEW q \in Registers, NEW step, NEW i
      PROVE  /\ LET r == [q EXCEPT !.pc = step]
                IN /\ r.pc = step /\ r.ino = q.ino /\ r.call = q.call /\ r.new = q.new
                   /\ r.offset = q.offset /\ r.ret = q.ret
             /\ LET r == [q EXCEPT !.pc = step, !.ino = i]
                IN /\ r.pc = step /\ r.ino = i /\ r.call = q.call /\ r.new = q.new
                   /\ r.offset = q.offset /\ r.ret = q.ret
  BY DEF Registers
<1>4. ASSUME NEW q \in Registers, NEW ret, NEW out
       PROVE  LET r == [q EXCEPT !.pc = "done", !.ret = ret, !.out = out,
                                 !.ino = None, !.new = None, !.offset = 0]
              IN r.pc = "done" /\ r.call = q.call /\ r.offset = 0 /\ r.ret = ret
  BY DEF Registers
<1>5. ASSUME NEW step, Goto(t, step)
      PROVE  /\ thread'[t].pc = step /\ thread'[t].ino = thread[t].ino
             /\ thread'[t].call = thread[t].call /\ thread'[t].new = thread[t].new
             /\ thread'[t].offset = thread[t].offset /\ thread'[t].ret = thread[t].ret
  <2>1. thread'[t] = [thread[t] EXCEPT !.pc = step]
    BY <1>1, <1>5 DEF Goto
  <2> QED
    BY <1>1, <2>1, <1>3
<1>6. ASSUME NEW step, NEW i, GotoWith(t, step, i)
      PROVE  /\ thread'[t].pc = step /\ thread'[t].ino = i
             /\ thread'[t].call = thread[t].call /\ thread'[t].new = thread[t].new
             /\ thread'[t].offset = thread[t].offset /\ thread'[t].ret = thread[t].ret
  <2>1. thread'[t] = [thread[t] EXCEPT !.pc = step, !.ino = i]
    BY <1>1, <1>6 DEF GotoWith
  <2> QED
    BY <1>1, <2>1, <1>3
<1>7. ASSUME NEW e, Finish(t, e)
      PROVE  /\ fs' = e.fs /\ thread'[t].pc = "done" /\ thread'[t].call = thread[t].call
             /\ thread'[t].offset = 0 /\ thread'[t].ret = e.ret
  <2>1. fs' = e.fs /\ thread'[t] = [thread[t] EXCEPT !.pc = "done", !.ret = e.ret, !.out = e.out,
                                                 !.ino = None, !.new = None, !.offset = 0]
    BY <1>1, <1>7 DEF Finish
  <2> QED
    BY <1>1, <2>1, <1>4
<1> QED
  BY <1>2, <1>5, <1>6, <1>7

(* What the tables have for a call that makes an inode. *)
LEMMA MakerStands ==
  ASSUME LockInv, NameInv, NEW t \in Threads, Makes(thread[t])
  PROVE  LET i == Made(thread[t])
         IN /\ i \in fs.inodes \ {Root} /\ i \in Inums \ {Root} /\ Naming(fs, i) = {}
            /\ Cardinality(Naming(fs, i)) = 0
            /\ thread[t].pc # "fill" => fs.inode[i].count >= 1
<1>1. Stands(fs, thread[t]) /\ fs.inodes \subseteq Inums
  BY DEF NameInv, LockInv, Tables
<1>2. Naming(fs, Made(thread[t])) = {}
  BY <1>1 DEF Stands
<1> QED
  BY <1>1, <1>2, NamingCounted DEF Stands

(* A step of a call that makes an inode, which touches that inode only. *)
LEMMA MakerStep ==
  ASSUME LockInv, NameInv, NEW t \in Threads, Step(t), Makes(thread[t]),
         NEW name, name \in NamesOf(Call(t)) \cup {NoName},
         Touches(fs, fs', Made(thread[t]), name, FALSE), NamesOK(fs'),
         \/ ~Makes(thread'[t]) /\ ~Asks(thread'[t]) /\ ~Counts(thread'[t])
         \/ /\ Makes(thread'[t]) /\ Made(thread'[t]) = Made(thread[t])
            /\ Made(thread[t]) \in fs'.inodes /\ Naming(fs', Made(thread[t])) = {}
            /\ fs'.inode[Made(thread[t])].count >= 1
  PROVE  NameInv'
<1> DEFINE i == Made(thread[t])
<1>1. i \in fs.inodes \ {Root}
  BY MakerStands
<1>2. \A u \in Threads \ {t} : Distinct(thread[t], thread[u]) /\ Distinct(thread[u], thread[t])
  BY DEF NameInv
<1>3. ASSUME NEW u \in Threads \ {t}
      PROVE  (Makes(thread[u]) => Made(thread[u]) # i) /\ (Counts(thread[u]) => Ino(u) # i)
  BY <1>2 DEF Distinct, Ino
<1>4. CASE ~Makes(thread'[t]) /\ ~Asks(thread'[t]) /\ ~Counts(thread'[t])
  <2>1. Stands(fs', thread'[t])
    BY <1>4 DEF Stands
  <2>2. \A r : Distinct(thread'[t], r) /\ Distinct(r, thread'[t])
    BY <1>4 DEF Distinct
  <2> QED
    BY <1>3, <2>1, <2>2, StepNames
<1>5. CASE /\ Makes(thread'[t]) /\ Made(thread'[t]) = i
           /\ i \in fs'.inodes /\ Naming(fs', i) = {} /\ fs'.inode[i].count >= 1
  <2>1. ~Asks(thread'[t]) /\ ~Counts(thread'[t])
    BY <1>5 DEF Asks, Counts, Makes
  <2>2. Stands(fs', thread'[t])
    BY <1>1, <1>5, <2>1 DEF Stands
  <2>3. \A u \in Threads \ {t} : /\ Distinct(thread'[t], thread[u])
                                 /\ Distinct(thread[u], thread'[t])
    BY <1>3, <1>5, <2>1 DEF Distinct, Ino
  <2> QED
    BY <1>3, <2>2, <2>3, StepNames
<1> QED
  BY <1>4, <1>5

(* inode_alloc: no entry leads to the inode. *)
LEMMA AllocStep ==
  ASSUME LockInv, NameInv, NEW t \in Threads, Step(t), NEW i \in Inums \ fs.inodes,
         fs' = [fs EXCEPT !.inodes = @ \cup {i}],
         Makes(thread'[t]), Made(thread'[t]) = i, thread'[t].pc = "fill"
  PROVE  NameInv'
<1>1. NamesOK(fs) /\ fs \in Tables
  BY DEF NameInv, LockInv
<1>2. /\ fs'.dir = fs.dir /\ fs'.inodes = fs.inodes \cup {i} /\ fs'.inode = fs.inode
      /\ fs.inode[i].count \in Nat
  BY <1>1 DEF Tables, Inodes
<1>3. \A k : Naming(fs', k) = Naming(fs, k)
  BY <1>2 DEF Naming
<1>4. Naming(fs', i) = {} /\ Cardinality(Naming(fs', i)) = 0
  BY <1>1, <1>3, NamingCounted
<1>5. i # Root
  BY <1>1 DEF NamesOK
<1>6. NamesOK(fs')
  <2>1. ASSUME NEW k \in fs'.inodes
        PROVE  Cardinality(Naming(fs', k)) <= fs'.inode[k].count
    <3>1. CASE k = i
      BY <1>2, <1>4, <3>1
    <3>2. CASE k \in fs.inodes
      <4>1. Cardinality(Naming(fs, k)) <= fs.inode[k].count
        BY <1>1, <3>2 DEF NamesOK
      <4> QED
        BY <1>2, <1>3, <4>1
    <3> QED
      BY <1>2, <2>1, <3>1, <3>2
  <2>2. \A e \in Entries : /\ fs'.dir[e].inum \in (fs'.inodes \ {Root}) \cup {None}
                           /\ fs'.dir[e].inum = None => fs'.dir[e].name = NoName
    BY <1>1, <1>2 DEF NamesOK
  <2>3. Root \in fs'.inodes
    BY <1>1, <1>2 DEF NamesOK
  <2> QED
    BY <2>1, <2>2, <2>3 DEF NamesOK
<1>7. Touches(fs, fs', i, NoName, FALSE)
  BY <1>2, DirSame
<1>8. \A u \in Threads : /\ Makes(thread[u]) => Made(thread[u]) # i
                         /\ Counts(thread[u]) => Ino(u) # i
  BY DEF NameInv, Stands, Ino
<1>9. ~Asks(thread'[t]) /\ ~Counts(thread'[t])
  BY DEF Asks, Counts
<1>10. Stands(fs', thread'[t])
  BY <1>2, <1>4, <1>5, <1>9 DEF Stands
<1>11. \A u \in Threads \ {t} : /\ Distinct(thread'[t], thread[u])
                                /\ Distinct(thread[u], thread'[t])
  BY <1>8, <1>9 DEF Distinct, Ino
<1> QED
  BY <1>6, <1>7, <1>8, <1>10, <1>11, StepNames

(* An inode that no entry leads to may be filled. *)
LEMMA FilledNames ==
  ASSUME NEW s \in Tables, NamesOK(s), NEW i \in Inums, Naming(s, i) = {},
         NEW u, u.dir = s.dir, u.inodes = s.inodes, u.inode[i].count = 1,
         \A k \in Inums \ {i} : u.inode[k] = s.inode[k]
  PROVE  NamesOK(u) /\ Naming(u, i) = {} /\ Touches(s, u, i, NoName, FALSE)
<1>1. \A k : Naming(u, k) = Naming(s, k)
  BY DEF Naming
<1>2. s.inodes \subseteq Inums
  BY DEF Tables
<1>3. ASSUME NEW k \in s.inodes PROVE Cardinality(Naming(u, k)) <= u.inode[k].count
  <2>1. CASE k = i
    BY <1>1, <2>1, NamingCounted
  <2>2. CASE k # i
    BY <1>1, <1>2, <2>2 DEF NamesOK
  <2> QED
    BY <2>1, <2>2
<1>4. NamesOK(u)
  BY <1>3 DEF NamesOK
<1>5. Touches(s, u, i, NoName, FALSE)
  BY <1>2, DirSame
<1> QED
  BY <1>1, <1>4, <1>5

(* Or freed again. *)
LEMMA FreedNames ==
  ASSUME NEW s \in Tables, NamesOK(s), NEW i \in Inums \ {Root}, Naming(s, i) = {},
         NEW u, u.dir = s.dir, u.inodes = s.inodes \ {i},
         \A k \in Inums \ {i} : u.inode[k] = s.inode[k]
  PROVE  NamesOK(u) /\ Touches(s, u, i, NoName, FALSE)
<1>1. \A k : Naming(u, k) = Naming(s, k)
  BY DEF Naming
<1>2. s.inodes \subseteq Inums
  BY DEF Tables
<1>3. \A e \in Entries : s.dir[e].inum # i
  BY DEF Naming
<1>4. NamesOK(u)
  BY <1>1, <1>2, <1>3 DEF NamesOK
<1>5. Touches(s, u, i, NoName, FALSE)
  BY <1>2, DirSame
<1> QED
  BY <1>4, <1>5

(* tfs_open of a new file. *)
LEMMA CreatNamesKept ==
  ASSUME LockInv, NameInv, NEW t \in Threads,
         Creat(t) \/ CreatFill(t) \/ CreatEnter(t) \/ CreatUndo(t)
  PROVE  NameInv'
<1> DEFINE i == Ino(t)
           r == thread[t]
           name == Call(t).path
<1>1. /\ Step(t) /\ r.call.op = "open" /\ Call(t) = r.call /\ i = r.ino
      /\ r.pc \in {"alloc", "fill", "enter", "undo"}
      /\ fs \in Tables /\ NamesOK(fs) /\ r \in Registers /\ name \in Names /\ name \in NamesOf(Call(t))
  <2>1. Step(t) /\ Call(t).op = "open" /\ r.pc \in {"alloc", "fill", "enter", "undo"}
    BY DEF Step, Creat, CreatFill, CreatEnter, CreatUndo, At
  <2>2. fs \in Tables /\ NamesOK(fs) /\ Placed(t, r) /\ r \in Registers
    BY DEF LockInv, NameInv
  <2>3. Call(t) \in Calls
    BY <2>1, <2>2 DEF Placed, Call
  <2> QED
    BY <2>1, <2>2, <2>3, ThreadsAssumption DEF IsCall, Call, Ino, NamesOf
<1>2. ASSUME r.pc # "alloc"
      PROVE  /\ Makes(r) /\ Made(r) = i /\ i \in fs.inodes \ {Root} /\ i \in Inums \ {Root}
             /\ Naming(fs, i) = {} /\ Cardinality(Naming(fs, i)) = 0
             /\ r.pc # "fill" => fs.inode[i].count >= 1
  <2>1. Makes(r) /\ Made(r) = i
    BY <1>1, <1>2 DEF Makes, Made
  <2> QED
    BY <2>1, MakerStands
<1>3. CASE Creat(t)
  <2> DEFINE n == FirstFree(Inums, fs.inodes)
  <2>1. n \in (Inums \ fs.inodes) \cup {None}
    BY FirstFreeType, Sizes
  <2>2. CASE n = None
    <3>1. Finish(t, Return(fs, None))
      BY <1>3, <2>2 DEF Creat
    <3>2. fs' = fs /\ thread'[t].pc = "done"
      BY <1>1, <3>1, AfterStep
    <3> QED
      BY <1>1, <3>2, QuietStep
  <2>3. CASE n # None
    <3>1. fs' = [fs EXCEPT !.inodes = @ \cup {n}] /\ GotoWith(t, "fill", n)
      BY <1>3, <2>3 DEF Creat
    <3> HIDE DEF n
    <3>2. thread'[t].pc = "fill" /\ thread'[t].ino = n /\ thread'[t].call = r.call
      BY <1>1, <3>1, AfterStep
    <3>3. Makes(thread'[t]) /\ Made(thread'[t]) = n
      BY <1>1, <3>2 DEF Makes, Made
    <3> QED
      BY <1>1, <2>1, <2>3, <3>1, <3>2, <3>3, AllocStep
  <2> QED
    BY <2>2, <2>3
<1>4. CASE CreatFill(t)
  <2>1. fs' = [fs EXCEPT !.inode[i] = NewFile] /\ Goto(t, "enter") /\ r.pc = "fill"
    BY <1>4 DEF CreatFill, At
  <2>2. thread'[t].pc = "enter" /\ thread'[t].ino = i /\ thread'[t].call = r.call
    BY <1>1, <2>1, AfterStep
  <2>3. Makes(thread'[t]) /\ Made(thread'[t]) = i
    BY <1>1, <2>2 DEF Makes, Made
  <2>4. /\ fs'.dir = fs.dir /\ fs'.inodes = fs.inodes /\ fs'.inode[i].count = 1
        /\ \A k \in Inums \ {i} : fs'.inode[k] = fs.inode[k]
    BY <1>1, <1>2, <2>1 DEF Tables, NewFile
  <2>5. NamesOK(fs') /\ Naming(fs', i) = {} /\ Touches(fs, fs', i, NoName, FALSE)
    BY <1>1, <1>2, <2>1, <2>4, FilledNames
  <2>6. Makes(r) /\ Made(r) = i /\ i \in fs'.inodes
    BY <1>2, <2>1, <2>4
  <2>7. fs'.inode[i].count >= 1
    BY <2>4
  <2> HIDE DEF i
  <2> QED
    BY <1>1, <2>3, <2>5, <2>6, <2>7, MakerStep
<1>5. CASE CreatEnter(t)
  <2>1. /\ fs' = AddDirEntry(fs, name, i) /\ r.pc = "enter"
        /\ Goto(t, IF Addable(fs, name) THEN "handle" ELSE "undo")
    BY <1>5 DEF CreatEnter, At
  <2>2. /\ thread'[t].pc = (IF Addable(fs, name) THEN "handle" ELSE "undo")
        /\ thread'[t].ino = i /\ thread'[t].call = r.call
    BY <1>1, <2>1, AfterStep
  <2>3. NamesOK(fs') /\ Touches(fs, fs', i, name, FALSE)
    <3>1. /\ i \in fs.inodes \ {Root} /\ i \in Inums
          /\ Cardinality(Naming(fs, i)) + 1 <= fs.inode[i].count
      BY <1>2, <2>1
    <3> HIDE DEF i, name
    <3> QED
      BY <1>1, <2>1, <3>1, AddDirEntryNames, AddDirEntryTouches
  <2>4. CASE Addable(fs, name)
    <3>1. ~Makes(thread'[t]) /\ ~Asks(thread'[t]) /\ ~Counts(thread'[t])
      BY <1>1, <2>2, <2>4 DEF Makes, Asks, Counts
    <3> QED
      BY <1>1, <1>2, <2>1, <2>3, <3>1, MakerStep
  <2>5. CASE ~Addable(fs, name)
    <3>1. fs' = fs
      BY <2>1, <2>5 DEF AddDirEntry
    <3>2. Makes(thread'[t]) /\ Made(thread'[t]) = i
      BY <1>1, <2>2, <2>5 DEF Makes, Made
    <3> QED
      BY <1>1, <1>2, <2>1, <2>3, <3>1, <3>2, MakerStep
  <2> QED
    BY <2>4, <2>5
<1>6. CASE CreatUndo(t)
  <2>1. Finish(t, Return(InodeDelete(fs, i), None)) /\ r.pc = "undo"
    BY <1>6 DEF CreatUndo, At
  <2>2. fs' = InodeDelete(fs, i) /\ thread'[t].pc = "done" /\ thread'[t].call = r.call
    BY <1>1, <2>1, AfterStep
  <2>3. fs'.dir = fs.dir /\ fs'.inodes = fs.inodes \ {i} /\ fs'.inode = fs.inode
    BY <1>1, <2>2 DEF InodeDelete, Tables
  <2>4. NamesOK(fs') /\ Touches(fs, fs', i, NoName, FALSE)
    BY <1>1, <1>2, <2>1, <2>3, FreedNames
  <2>5. ~Makes(thread'[t]) /\ ~Asks(thread'[t]) /\ ~Counts(thread'[t])
    BY <2>2 DEF Makes, Asks, Counts
  <2> QED
    BY <1>1, <1>2, <2>1, <2>4, <2>5, MakerStep
<1> QED
  BY <1>3, <1>4, <1>5, <1>6

(* tfs_sym_link. *)
LEMMA SymLinkNamesKept ==
  ASSUME LockInv, NameInv, NEW t \in Threads, SymLock(t) \/ SymFill(t) \/ SymText(t) \/ SymEnter(t)
  PROVE  NameInv'
<1> DEFINE r == thread[t]
           i == r.new
           name == Call(t).name
<1>1. /\ Step(t) /\ r.call.op = "sym_link" /\ Call(t) = r.call
      /\ r.pc \in {"lock", "fill", "text", "enter"} /\ fs \in Tables /\ NamesOK(fs)
      /\ name \in Names /\ name \in NamesOf(Call(t))
  <2>1. Step(t) /\ Call(t).op = "sym_link" /\ r.pc \in {"lock", "fill", "text", "enter"}
    BY DEF Step, SymLock, SymFill, SymText, SymEnter, At
  <2>2. fs \in Tables /\ NamesOK(fs) /\ Placed(t, r)
    BY DEF LockInv, NameInv
  <2>3. Call(t) \in Calls
    BY <2>1, <2>2 DEF Placed, Call
  <2> QED
    BY <2>1, <2>2, <2>3, ThreadsAssumption DEF IsCall, Call, NamesOf
<1>2. ASSUME r.pc # "lock"
      PROVE  /\ Makes(r) /\ Made(r) = i /\ i \in fs.inodes \ {Root} /\ i \in Inums \ {Root}
             /\ Naming(fs, i) = {} /\ Cardinality(Naming(fs, i)) = 0
             /\ r.pc # "fill" => fs.inode[i].count >= 1
  <2>1. Makes(r) /\ Made(r) = i
    BY <1>1, <1>2 DEF Makes, Made
  <2> QED
    BY <2>1, MakerStands
<1>3. CASE SymLock(t)
  <2> DEFINE n == FirstFree(Inums, fs.inodes)
  <2>1. n \in (Inums \ fs.inodes) \cup {None}
    BY FirstFreeType, Sizes
  <2>2. CASE n = None
    <3>1. Finish(t, Return(fs, None))
      BY <1>3, <2>2 DEF SymLock
    <3>2. fs' = fs /\ thread'[t].pc = "done"
      BY <3>1, AfterStep
    <3> QED
      BY <1>1, <3>2, QuietStep
  <2>3. CASE n # None
    <3>1. /\ fs' = [fs EXCEPT !.inodes = @ \cup {n}]
          /\ thread' = [thread EXCEPT ![t].pc = "fill", ![t].new = n]
      BY <1>3, <2>3 DEF SymLock
    <3> HIDE DEF n
    <3>2. thread'[t].pc = "fill" /\ thread'[t].new = n /\ thread'[t].call = r.call
      BY <3>1 DEF LockInv, Registers
    <3>3. Makes(thread'[t]) /\ Made(thread'[t]) = n
      BY <1>1, <3>2 DEF Makes, Made
    <3> QED
      BY <1>1, <2>1, <2>3, <3>1, <3>2, <3>3, AllocStep
  <2> QED
    BY <2>2, <2>3
<1>4. CASE SymFill(t)
  <2> DEFINE b == FirstFree(Blocks, fs.blocks)
             ino == [type |-> "link", size |-> MaxFileName, block |-> b, count |-> 1]
  <2>1. r.pc = "fill"
    BY <1>4 DEF SymFill, At
  <2>2. i # None
    BY <1>2, <2>1, Sizes
  <2>3. CASE b = None
    <3> DEFINE u == [fs EXCEPT !.inodes = @ \ {i}, !.inode[i].type = "link",
                               !.inode[i].size = 0, !.inode[i].block = None]
    <3>1. FillLink(fs, i) = Return(u, None)
      BY <2>3 DEF FillLink
    <3>2. Finish(t, Return(u, None))
      BY <1>4, <3>1 DEF SymFill, Return
    <3>3. fs' = u /\ thread'[t].pc = "done"
      BY <3>2, AfterStep
    <3> HIDE DEF i
    <3>4. /\ u.dir = fs.dir /\ u.inodes = fs.inodes \ {i}
          /\ \A k \in Inums \ {i} : u.inode[k] = fs.inode[k]
      BY <1>1 DEF Tables
    <3> HIDE DEF u
    <3>5. NamesOK(fs') /\ Touches(fs, fs', i, NoName, FALSE)
      BY <1>1, <1>2, <2>1, <3>3, <3>4, FreedNames
    <3>6. ~Makes(thread'[t]) /\ ~Asks(thread'[t]) /\ ~Counts(thread'[t])
      BY <3>3 DEF Makes, Asks, Counts
    <3> QED
      BY <1>1, <1>2, <2>1, <3>5, <3>6, MakerStep
  <2>4. CASE b # None
    <3> DEFINE u == [fs EXCEPT !.blocks = @ \cup {b}, !.inode[i] = ino]
    <3>1. FillLink(fs, i) = Return(u, i)
      BY <2>4 DEF FillLink
    <3>2. fs' = u /\ Goto(t, "text")
      BY <1>4, <2>2, <3>1 DEF SymFill, Return
    <3>3. thread'[t].pc = "text" /\ thread'[t].new = i /\ thread'[t].call = r.call
      BY <3>2, AfterStep
    <3>4. Makes(thread'[t]) /\ Made(thread'[t]) = i
      BY <1>1, <3>3 DEF Makes, Made
    <3>5. Makes(r) /\ Made(r) = i /\ i \in fs.inodes /\ i \in Inums /\ Naming(fs, i) = {}
      BY <1>2, <2>1
    <3> HIDE DEF i, b
    <3>6. /\ u.dir = fs.dir /\ u.inodes = fs.inodes /\ u.inode[i].count = 1
          /\ \A k \in Inums \ {i} : u.inode[k] = fs.inode[k]
      BY <1>1, <3>5 DEF Tables
    <3> HIDE DEF u
    <3>7. NamesOK(fs') /\ Naming(fs', i) = {} /\ Touches(fs, fs', i, NoName, FALSE)
      BY <1>1, <3>2, <3>5, <3>6, FilledNames
    <3>8. i \in fs'.inodes /\ fs'.inode[i].count >= 1
      BY <3>2, <3>5, <3>6
    <3> QED
      BY <1>1, <3>4, <3>5, <3>7, <3>8, MakerStep
  <2> QED
    BY <2>3, <2>4
<1>5. CASE SymText(t)
  <2>1. fs' = StoreTarget(fs, i, Call(t).path) /\ Goto(t, "enter") /\ r.pc = "text"
    BY <1>5 DEF SymText, At
  <2>2. thread'[t].pc = "enter" /\ thread'[t].new = i /\ thread'[t].call = r.call
    BY <2>1, AfterStep
  <2>3. Makes(thread'[t]) /\ Made(thread'[t]) = i
    BY <1>1, <2>2 DEF Makes, Made
  <2>4. Makes(r) /\ Made(r) = i /\ i \in fs.inodes /\ Naming(fs, i) = {} /\ fs.inode[i].count >= 1
    BY <1>2, <2>1
  <2>5. fs'.dir = fs.dir /\ fs'.inodes = fs.inodes /\ fs'.inode = fs.inode
    BY <2>1 DEF StoreTarget, Store
  <2> HIDE DEF i
  <2>6. NamesOK(fs') /\ Touches(fs, fs', i, NoName, FALSE)
    BY <1>1, <2>5, NamesFrame, DirSame
  <2>7. Naming(fs', i) = {} /\ i \in fs'.inodes /\ fs'.inode[i].count >= 1
    BY <2>4, <2>5 DEF Naming
  <2> QED
    BY <1>1, <2>3, <2>4, <2>6, <2>7, MakerStep
<1>6. CASE SymEnter(t)
  <2>1. Finish(t, Return(AddDirEntry(fs, name, i), 0)) /\ r.pc = "enter"
    BY <1>6 DEF SymEnter, At
  <2>2. fs' = AddDirEntry(fs, name, i) /\ thread'[t].pc = "done"
    BY <2>1, AfterStep
  <2>3. /\ i \in fs.inodes \ {Root} /\ i \in Inums /\ Makes(r) /\ Made(r) = i
        /\ Cardinality(Naming(fs, i)) + 1 <= fs.inode[i].count
    BY <1>2, <2>1
  <2> HIDE DEF i, name
  <2>4. NamesOK(fs') /\ Touches(fs, fs', i, name, FALSE)
    BY <1>1, <2>2, <2>3, AddDirEntryNames, AddDirEntryTouches
  <2>5. ~Makes(thread'[t]) /\ ~Asks(thread'[t]) /\ ~Counts(thread'[t])
    BY <2>2 DEF Makes, Asks, Counts
  <2> QED
    BY <1>1, <2>3, <2>4, <2>5, MakerStep
<1> QED
  BY <1>1, <1>3, <1>4, <1>5, <1>6 DEF Step

(* Two calls never count the links of the same inode. *)
LEMMA CountsAlone ==
  ASSUME LockInv, NEW t \in Threads, NEW u \in Threads, t # u,
         Counts(thread[t]), Counts(thread[u])
  PROVE  Ino(t) # Ino(u)
<1>1. Changes(t) /\ Inside(u)
  BY DEF Counts, Changes, Inside, Call
<1> QED
  BY <1>1, LockedAlone DEF WritersAlone

(* A step to or from the counting of an inode that entries lead to, or     *)
(* that the call counts: other calls neither make nor count it.            *)
LEMMA CounterStep ==
  ASSUME LockInv, LockInv', NameInv, NEW t \in Threads, Step(t), NEW i, i = Ino(t),
         NEW name, NEW gone \in BOOLEAN, Touches(fs, fs', i, name, gone),
         name \in NamesOf(Call(t)) \cup {NoName}, gone => Call(t).op = "unlink",
         NamesOK(fs'), Call(t).op \in {"link", "unlink"},
         Counts(thread[t]) \/ Naming(fs, i) # {},
         Counts(thread[t]) \/ (Counts(thread'[t]) /\ thread'[t].ino = i),
         \/ ~Makes(thread'[t]) /\ ~Asks(thread'[t]) /\ ~Counts(thread'[t])
         \/ /\ Counts(thread'[t]) /\ thread'[t].ino = i /\ i \in fs'.inodes \ {Root}
            /\ Cardinality(Naming(fs', i)) + 1 <= fs'.inode[i].count
  PROVE  NameInv'
<1>1. \A u \in Threads \ {t} : thread'[u] = thread[u] /\ Ino(u)' = Ino(u)
  BY StepsAlone DEF Ino
<1>2. thread'[t].call = Call(t) /\ ~Makes(thread'[t])
  BY StepsAlone DEF Makes
<1>3. ASSUME NEW u \in Threads \ {t}, Makes(thread[u]) PROVE Made(thread[u]) # i
  <2>1. Naming(fs, Made(thread[u])) = {} /\ Distinct(thread[u], thread[t])
    BY <1>3 DEF NameInv, Stands
  <2> QED
    BY <1>3, <2>1 DEF Distinct, Ino
<1>4. ASSUME NEW u \in Threads \ {t}, Counts(thread[u]) PROVE Ino(u) # i
  <2>1. CASE Counts(thread[t])
    BY <1>4, <2>1, CountsAlone
  <2>2. CASE Counts(thread'[t]) /\ thread'[t].ino = i
    <3>1. (LockInv => WritersAlone)'
      BY LockedAlone, PTL
    <3>2. Changes(t)' /\ Inside(u)'
      BY <1>1, <1>4, <2>2 DEF Counts, Changes, Inside, Call
    <3> QED
      BY <1>1, <2>2, <3>1, <3>2 DEF WritersAlone, Ino
  <2> QED
    BY <2>1, <2>2
<1>5. Stands(fs', thread'[t])
  <2>1. ~Asks(thread'[t]) \/ ~Counts(thread'[t])
    BY DEF Asks, Counts
  <2> QED
    BY <1>2, <2>1 DEF Stands, Asks, Counts
<1>6. \A u \in Threads \ {t} : /\ Distinct(thread'[t], thread[u])
                               /\ Distinct(thread[u], thread'[t])
  BY <1>2, <1>3 DEF Distinct
<1> QED
  BY <1>3, <1>4, <1>5, <1>6, StepNames

(* tfs_link. *)
LEMMA LinkNamesKept ==
  ASSUME LockInv, LockInv', NameInv, NEW t \in Threads, LinkLock(t) \/ LinkEnter(t)
  PROVE  NameInv'
<1> DEFINE r == thread[t]
           i == Ino(t)
           name == Call(t).name
<1>1. /\ Step(t) /\ r.call.op = "link" /\ Call(t) = r.call /\ r.pc \in {"lock", "enter"}
      /\ fs \in Tables /\ NamesOK(fs) /\ i = Ino(t) /\ i = r.ino /\ i \in Inums
      /\ name \in Names /\ name \in NamesOf(Call(t)) /\ Stands(fs, r)
  <2>1. Step(t) /\ Call(t).op = "link" /\ r.pc \in {"lock", "enter"}
    BY DEF Step, LinkLock, LinkEnter, At
  <2>2. fs \in Tables /\ NamesOK(fs) /\ Placed(t, r) /\ Stands(fs, r)
    BY DEF LockInv, NameInv
  <2>3. Call(t) \in Calls /\ i \in Inums
    BY <2>1, <2>2 DEF Placed, Call, Ino
  <2> QED
    BY <2>1, <2>2, <2>3, ThreadsAssumption DEF IsCall, Call, Ino, NamesOf
<1>2. CASE LinkLock(t)
  <2>1. CASE fs.inode[i].type = "link"
    <3>1. Finish(t, Return(fs, None))
      BY <1>2, <2>1 DEF LinkLock
    <3>2. fs' = fs /\ thread'[t].pc = "done"
      BY <3>1, AfterStep
    <3> QED
      BY <1>1, <3>2, QuietStep
  <2>2. CASE fs.inode[i].type # "link"
    <3>1. fs' = [fs EXCEPT !.inode[i].count = @ + 1] /\ Goto(t, "enter") /\ r.pc = "lock"
      BY <1>2, <2>2 DEF LinkLock, At
    <3>2. thread'[t].pc = "enter" /\ thread'[t].ino = i /\ thread'[t].call = r.call
      BY <1>1, <3>1, AfterStep
    <3>3. Counts(thread'[t])
      BY <1>1, <3>2 DEF Counts
    <3>4. PICK e \in Entries : fs.dir[e].inum = i
      BY <1>1, <3>1 DEF Stands, Asks
    <3>5. i \in fs.inodes \ {Root} /\ Naming(fs, i) # {}
      BY <1>1, <3>4, Sizes DEF NamesOK, Naming
    <3> HIDE DEF i
    <3>6. /\ fs'.dir = fs.dir /\ fs'.inodes = fs.inodes
          /\ fs'.inode[i].count = fs.inode[i].count + 1 /\ fs.inode[i].count \in Nat
          /\ \A k \in Inums \ {i} : fs'.inode[k] = fs.inode[k]
      BY <1>1, <3>1 DEF Tables, Inodes
    <3>7. \A k : Naming(fs', k) = Naming(fs, k) /\ Cardinality(Naming(fs, k)) \in Nat
      BY <3>6, NamingCounted DEF Naming
    <3>8. fs.inodes \subseteq Inums /\ \A k \in fs.inodes : Cardinality(Naming(fs, k)) <= fs.inode[k].count
      BY <1>1 DEF NamesOK, Tables
    <3>9. /\ \A k \in fs'.inodes : Cardinality(Naming(fs', k)) <= fs'.inode[k].count
          /\ Cardinality(Naming(fs', i)) + 1 <= fs'.inode[i].count
      <4>1. Cardinality(Naming(fs, i)) <= fs.inode[i].count
        BY <3>5, <3>8
      <4>2. Cardinality(Naming(fs', i)) + 1 <= fs'.inode[i].count
        BY <3>6, <3>7, <4>1
      <4>3. ASSUME NEW k \in fs.inodes \ {i} PROVE Cardinality(Naming(fs', k)) <= fs'.inode[k].count
        BY <3>6, <3>7, <3>8
      <4> QED
        BY <3>6, <3>7, <4>2, <4>3
    <3>10. NamesOK(fs')
      BY <1>1, <3>6, <3>9 DEF NamesOK
    <3>11. Touches(fs, fs', i, NoName, FALSE)
      BY <3>6, <3>8, DirSame
    <3> QED
      BY <1>1, <3>2, <3>3, <3>5, <3>6, <3>9, <3>10, <3>11, CounterStep
  <2> QED
    BY <2>1, <2>2
<1>3. CASE LinkEnter(t)
  <2>1. Finish(t, Return(AddDirEntry(fs, name, i), 0)) /\ r.pc = "enter"
    BY <1>3 DEF LinkEnter, At
  <2>2. fs' = AddDirEntry(fs, name, i) /\ thread'[t].pc = "done"
    BY <2>1, AfterStep
  <2>3. Counts(r) /\ i \in fs.inodes \ {Root}
        /\ Cardinality(Naming(fs, i)) + 1 <= fs.inode[i].count
    BY <1>1, <2>1 DEF Counts, Stands
  <2> HIDE DEF name
  <2>4. NamesOK(fs') /\ Touches(fs, fs', i, name, FALSE)
    BY <1>1, <2>2, <2>3, AddDirEntryNames, AddDirEntryTouches
  <2>5. ~Makes(thread'[t]) /\ ~Asks(thread'[t]) /\ ~Counts(thread'[t])
    BY <2>2 DEF Makes, Asks, Counts
  <2> QED
    BY <1>1, <2>3, <2>4, <2>5, CounterStep
<1> QED
  BY <1>2, <1>3

(* tfs_unlink, which never frees an inode that is free. *)
LEMMA UnlinkNamesKept ==
  ASSUME LockInv, LockInv', NameInv, NEW t \in Threads, UnlinkLock(t) \/ UnlinkDrop(t)
  PROVE  NameInv' /\ thread'[t].ret # Abort
<1> DEFINE r == thread[t]
           i == Ino(t)
           name == Call(t).path
<1>1. /\ Step(t) /\ r.call.op = "unlink" /\ Call(t) = r.call /\ r.pc \in {"lock", "drop"}
      /\ fs \in Tables /\ NamesOK(fs) /\ i = Ino(t) /\ i = r.ino /\ i \in Inums
      /\ name \in Names /\ name \in NamesOf(Call(t)) /\ Stands(fs, r)
  <2>1. Step(t) /\ Call(t).op = "unlink" /\ r.pc \in {"lock", "drop"}
    BY DEF Step, UnlinkLock, UnlinkDrop, At
  <2>2. fs \in Tables /\ NamesOK(fs) /\ Placed(t, r) /\ Stands(fs, r)
    BY DEF LockInv, NameInv
  <2>3. Call(t) \in Calls /\ i \in Inums
    BY <2>1, <2>2 DEF Placed, Call, Ino
  <2> QED
    BY <2>1, <2>2, <2>3, ThreadsAssumption DEF IsCall, Call, Ino, NamesOf
<1>2. CASE UnlinkLock(t)
  <2>1. fs' = ClearDirEntry(fs, name) /\ Goto(t, "drop") /\ r.pc = "lock"
    BY <1>2 DEF UnlinkLock, At
  <2>2. /\ thread'[t].pc = "drop" /\ thread'[t].ino = i /\ thread'[t].call = r.call
        /\ thread'[t].ret = r.ret
    BY <1>1, <2>1, AfterStep
  <2>3. Counts(thread'[t]) /\ r.ret # Abort
    <3>1. At(t, "lock", {"unlink"})
      BY <1>2 DEF UnlinkLock
    <3> QED
      BY <1>1, <2>2, <3>1 DEF Counts, At, Dead
  <2>4. Lookup(fs, name) = i /\ i # None
    BY <1>1, <2>1, Sizes DEF Stands, Asks
  <2>5. /\ i \in fs.inodes \ {Root} /\ NamesOK(fs') /\ fs'.inodes = fs.inodes /\ fs'.inode = fs.inode
        /\ Cardinality(Naming(fs', i)) = Cardinality(Naming(fs, i)) - 1
        /\ Touches(fs, fs', i, name, TRUE)
    BY <1>1, <2>1, <2>4, ClearDirEntryNames, ClearDirEntryTouches
  <2>6. /\ Naming(fs, i) # {} /\ Cardinality(Naming(fs', i)) + 1 <= fs'.inode[i].count
        /\ i \in fs'.inodes \ {Root}
    <3>1. Cardinality(Naming(fs, i)) \in Nat /\ Cardinality(Naming(fs', i)) \in Nat
          /\ (Naming(fs, i) = {} => Cardinality(Naming(fs, i)) = 0)
      BY NamingCounted
    <3>2. Cardinality(Naming(fs, i)) <= fs.inode[i].count
      BY <1>1, <2>5 DEF NamesOK
    <3>3. Cardinality(Naming(fs', i)) + 1 = Cardinality(Naming(fs, i))
      BY <2>5, <3>1
    <3> QED
      BY <2>5, <3>1, <3>2, <3>3
  <2> HIDE DEF i, name
  <2>7. NameInv'
    BY <1>1, <2>2, <2>3, <2>5, <2>6, CounterStep
  <2> QED
    BY <2>2, <2>3, <2>7
<1>3. CASE UnlinkDrop(t)
  <2>1. Finish(t, DropLink(fs, i)) /\ r.pc = "drop"
    BY <1>3 DEF UnlinkDrop, At
  <2>2. /\ fs' = DropLink(fs, i).fs /\ thread'[t].pc = "done"
        /\ thread'[t].ret = DropLink(fs, i).ret
    BY <2>1, AfterStep
  <2>3. /\ Counts(r) /\ i \in fs.inodes \ {Root}
        /\ Cardinality(Naming(fs, i)) + 1 <= fs.inode[i].count
    BY <1>1, <2>1 DEF Counts, Stands
  <2>4. ~Makes(thread'[t]) /\ ~Asks(thread'[t]) /\ ~Counts(thread'[t])
    BY <2>2 DEF Makes, Asks, Counts
  <2>5. Cardinality(Naming(fs, i)) \in Nat /\ fs.inode[i].count \in Nat /\ fs.inodes \subseteq Inums
    BY <1>1, NamingCounted DEF Tables, Inodes
  <2> HIDE DEF i
  <2>6. CASE fs.inode[i].count > 1
    <3>1. fs' = [fs EXCEPT !.inode[i].count = @ - 1] /\ thread'[t].ret = 0
      BY <2>2, <2>6 DEF DropLink, Return
    <3>2. /\ fs'.dir = fs.dir /\ fs'.inodes = fs.inodes
          /\ fs'.inode[i].count = fs.inode[i].count - 1
          /\ \A k \in Inums \ {i} : fs'.inode[k] = fs.inode[k]
      BY <1>1, <3>1 DEF Tables, Inodes
    <3>3. \A k : Naming(fs', k) = Naming(fs, k)
      BY <3>2 DEF Naming
    <3>4. \A k \in fs'.inodes : Cardinality(Naming(fs', k)) <= fs'.inode[k].count
      <4>1. Cardinality(Naming(fs', i)) <= fs'.inode[i].count
        BY <2>3, <2>5, <3>2, <3>3
      <4>2. ASSUME NEW k \in fs.inodes \ {i}
            PROVE  Cardinality(Naming(fs', k)) <= fs'.inode[k].count
        <5>1. Cardinality(Naming(fs, k)) <= fs.inode[k].count
          BY <1>1 DEF NamesOK
        <5> QED
          BY <2>5, <3>2, <3>3, <5>1
      <4> QED
        BY <3>2, <4>1, <4>2
    <3>5. NamesOK(fs')
      BY <1>1, <3>2, <3>4 DEF NamesOK
    <3>6. Touches(fs, fs', i, NoName, FALSE)
      BY <2>5, <3>2, DirSame
    <3>7. NameInv'
      BY <1>1, <2>3, <2>4, <3>5, <3>6, CounterStep
    <3> QED
      BY <3>1, <3>7 DEF Abort
  <2>7. CASE ~(fs.inode[i].count > 1)
    <3>1. fs' = InodeDelete(fs, i) /\ thread'[t].ret = 0
      BY <2>2, <2>3, <2>7 DEF DropLink, Return
    <3>2. fs'.dir = fs.dir /\ fs'.inodes = fs.inodes \ {i} /\ fs'.inode = fs.inode
      BY <1>1, <3>1 DEF InodeDelete, Tables
    <3>3. Naming(fs, i) = {}
      <4>1. Cardinality(Naming(fs, i)) = 0
        BY <2>3, <2>5, <2>7
      <4> QED
        BY <4>1, NamingCounted, FS_EmptySet
    <3>4. NamesOK(fs') /\ Touches(fs, fs', i, NoName, FALSE)
      BY <1>1, <2>3, <3>2, <3>3, FreedNames
    <3>5. NameInv'
      BY <1>1, <2>3, <2>4, <3>4, CounterStep
    <3> QED
      BY <3>1, <3>5 DEF Abort
  <2> QED
    BY <2>6, <2>7
<1> QED
  BY <1>2, <1>3

(* Every step keeps the names, and no removal fails. *)
LEMMA StepNameInv ==
  ASSUME LockInv, LockInv', NameInv, NEW t \in Threads, Step(t)
  PROVE  NameInv' /\ (Call(t).op = "unlink" => thread'[t].ret # Abort)
<1>1. CASE UnlinkLock(t) \/ UnlinkDrop(t)
  BY <1>1, UnlinkNamesKept
<1>2. CASE ~(UnlinkLock(t) \/ UnlinkDrop(t))
  <2>1. NameInv'
    BY <1>2, OpenNamesKept, CreatNamesKept, SymLinkNamesKept, LinkNamesKept, DataNamesKept DEF Step
  <2>2. Call(t).op # "unlink"
    BY <1>2 DEF Step, At, OpenLock, OpenHop, OpenRelock, OpenCut, OpenShrink, OpenSeek, OpenHandle,
       Creat, CreatFill, CreatEnter, CreatUndo, SymLock, SymFill, SymText, SymEnter,
       LinkLock, LinkEnter, DataLock, WriteLock, WriteSpace, WritePut, ReadLock, ReadCopy, CloseFile
  <2> QED
    BY <2>1, <2>2
<1> QED
  BY <1>1, <1>2

(* A call begins: nobody removes a name that it uses, nor it one of theirs. *)
LEMMA BeginNameInv ==
  ASSUME UnlinksAlone, LockInv, NameInv, NEW t \in Threads, NEW c \in Calls, Find(t, c) \/ Entry(t, c)
  PROVE  NameInv' /\ thread'[t].ret # Abort
<1> DEFINE r == thread'[t]
<1>1. /\ thread \in [Threads -> Registers] /\ fs \in Tables /\ NamesOK(fs)
      /\ \A u \in Running : Call(u) \in Calls
  BY DEF LockInv, NameInv, Placed, Running, Call
<1>2. PICK step, ino :
        /\ Begin(t, c, step, ino) /\ step \in {"lock", "alloc", "file", "done"}
        /\ step = "lock" /\ c.op \in {"link", "unlink"} => ino = Lookup(fs, c.path) /\ ino # None
  BY DEF Find, Entry
<1>3. /\ fs' = fs /\ thread[t].pc = "idle" /\ \A u \in Running : ~Apart(c, Call(u))
      /\ \A u \in Threads \ {t} : thread'[u] = thread[u]
      /\ r.call = c /\ r.pc = step /\ r.ino = ino /\ r.ret \in {None, 0}
  BY <1>1, <1>2 DEF Begin, Registers
<1>4. ~Counts(r) /\ ~Makes(r)
  BY <1>2, <1>3 DEF Counts, Makes
<1>5. Stands(fs, r)
  <2> SUFFICES ASSUME Asks(r)
               PROVE  IF c.op = "unlink" THEN Lookup(fs, c.path) = ino
                      ELSE \E e \in Entries : fs.dir[e] = [name |-> c.path, inum |-> ino]
    BY <1>3, <1>4 DEF Stands
  <2>1. ino = Lookup(fs, c.path) /\ ino # None
    BY <1>2, <1>3 DEF Asks
  <2>2. \E e \in Entries : fs.dir[e].name = c.path /\ fs.dir[e].inum = ino
    BY <2>1, LookupFound
  <2>3. \A e \in Entries : fs.dir[e] = [name |-> fs.dir[e].name, inum |-> fs.dir[e].inum]
    BY <1>1 DEF Tables
  <2> QED
    BY <2>1, <2>2, <2>3
<1>6. \A q : Distinct(r, q) /\ Distinct(q, r)
  BY <1>4 DEF Distinct
<1>7. OneRemover'
  <2>1. \A u \in Running' : u # t => u \in Running /\ Call(u)' = Call(u)
    BY <1>3 DEF Running, Call
  <2>2. Call(t)' = c
    BY <1>3 DEF Call
  <2>3. ASSUME NEW u \in Running
        PROVE  /\ c.op = "unlink" => c.path \notin NamesOf(Call(u))
               /\ Call(u).op = "unlink" => Call(u).path \notin NamesOf(c)
    BY <1>1, <1>3 DEF UnlinksAlone
  <2> QED
    BY <2>1, <2>2, <2>3 DEF NameInv, OneRemover
<1>8. \A u \in Threads : Stands(fs', thread'[u])
  BY <1>3, <1>5 DEF NameInv
<1>9. \A u, v \in Threads : u # v => Distinct(thread'[u], thread'[v])
  BY <1>3, <1>6 DEF NameInv
<1> QED
  BY <1>1, <1>3, <1>7, <1>8, <1>9 DEF NameInv, Abort, None

(* The scripts leave names in order. *)
LEMMA InitNameInv == Init => NameInv
<1> SUFFICES ASSUME Init PROVE NameInv
  OBVIOUS
<1> DEFINE Good == {s \in Tables : NamesOK(s)}
<1>1. PICK script \in Scripts :
        fs = FoldLeft(LAMBDA s, c : Effect(s, c).fs, InitialState, script)
  BY DEF Init
<1>2. DOMAIN script = 1 .. Len(script) /\ Len(script) \in Nat
      /\ \A k \in 1 .. Len(script) : IsCall(script[k])
  BY ThreadsAssumption
<1>3. ASSUME NEW s \in Good, NEW c, IsCall(c) PROVE Effect(s, c).fs \in Good
  <2>1. NamesOK(Effect(s, c).fs)
    <3>1. CASE c.op = "open"
      BY <1>3, <3>1, OpenNames DEF IsCall, Effect
    <3>2. CASE c.op = "unlink"
      BY <1>3, <3>2, UnlinkNames DEF IsCall, Effect
    <3>3. CASE c.op = "link"
      BY <1>3, <3>3, LinkNames DEF IsCall, Effect
    <3>4. CASE c.op = "sym_link"
      BY <1>3, <3>4, SymLinkNames DEF IsCall, Effect
    <3>5. CASE c.op \in {"close", "write", "read"}
      BY <1>3, <3>5, HandleCallsNames DEF IsCall, Effect
    <3> QED
      BY <1>3, <3>1, <3>2, <3>3, <3>4, <3>5 DEF IsCall
  <2> QED
    BY <1>3, <2>1, EffectType
<1>4. InitialState \in Good
  BY InitialStateType, InitialNames
<1> HIDE DEF Good
<1>5. fs \in Good
  BY <1>1, <1>2, <1>3, <1>4, ScriptStays
<1>6. \A t \in Threads : thread[t] = Idle /\ Idle.pc = "idle"
  BY DEF Init, Idle
<1>7. \A t \in Threads : ~Asks(thread[t]) /\ ~Counts(thread[t]) /\ ~Makes(thread[t])
  BY <1>6 DEF Asks, Counts, Makes
<1>8. OneRemover
  BY <1>6 DEF OneRemover, Running
<1> QED
  BY <1>5, <1>7, <1>8 DEF Good, NameInv, Stands, Distinct

(* The names and the removals, step by step. *)
Removed == \A t \in Threads : Call(t).op = "unlink" => thread[t].ret # Abort

LEMMA NextNameInv ==
  ASSUME UnlinksAlone, LockInv, NameInv, Removed, [Next]_vars
  PROVE  NameInv' /\ Removed'
<1>1. LockInv'
  BY NextLockInv
<1>2. ASSUME NEW t \in Threads, Step(t) PROVE NameInv' /\ Removed'
  <2>1. NameInv' /\ (Call(t).op = "unlink" => thread'[t].ret # Abort)
    BY <1>1, <1>2, StepNameInv
  <2>2. thread'[t].call = Call(t) /\ \A u \in Threads \ {t} : thread'[u] = thread[u]
    BY <1>2, StepsAlone
  <2> QED
    BY <2>1, <2>2 DEF Removed, Call
<1>3. ASSUME NEW t \in Threads, NEW c \in Calls, Find(t, c) \/ Entry(t, c)
      PROVE  NameInv' /\ Removed'
  <2>1. NameInv' /\ thread'[t].ret # Abort
    BY <1>3, BeginNameInv
  <2>2. \A u \in Threads \ {t} : thread'[u] = thread[u]
    BY <1>3 DEF Find, Entry, Begin, LockInv
  <2> QED
    BY <2>1, <2>2 DEF Removed, Call
<1>4. CASE UNCHANGED vars
  BY <1>4 DEF vars, NameInv, Removed, OneRemover, Running, Call
<1> QED
  BY <1>2, <1>3, <1>4 DEF Next, Terminated

(* They hold whatever is called. *)
LEMMA NamesStand == UnlinksAlone => (Spec => [](NameInv /\ Removed))
<1> SUFFICES ASSUME UnlinksAlone PROVE Spec => [](NameInv /\ Removed)
  OBVIOUS
<1>1. Init => NameInv /\ Removed
  <2>1. Idle.ret = 0 /\ 0 # Abort
    BY DEF Idle, Abort
  <2>2. Init => Removed
    BY <2>1 DEF Init, Removed
  <2> QED
    BY <2>2, InitNameInv
<1>2. LockInv /\ (NameInv /\ Removed) /\ [Next]_vars => (NameInv /\ Removed)'
  BY NextNameInv
<1> QED
  BY <1>1, <1>2, Locked, PTL DEF Spec

(* If callers remove a name only when no other call uses it, no tfs_unlink *)
(* finds the inode it is to free to be free already, which inode_delete    *)
(* asserts.  A link that another thread makes meanwhile, under another of  *)
(* the file's names, is counted by then.                                   *)
THEOREM RemovedOnce == UnlinksAlone => (Spec => []Removed)
BY NamesStand, PTL

-----------------------------------------------------------------------------
(***************************************************************************)
(* Reading.  A read finds the block of its file, while the file has a name *)
(* that nobody removes.                                                    *)
(***************************************************************************)
(* The names that no call removes, and the files that bear one in s. *)
KeptNames == {name \in Names : \A c \in Calls : c.op = "unlink" => c.path # name}
Kept(s) == {i \in Inums : \E e \in Entries : s.dir[e].inum = i /\ s.dir[e].name \in KeptNames}

Backed(s, i) == s.inode[i].block # None

(* What the tables s have for a thread with the registers r: an offset to  *)
(* start at, bytes to write or bytes to read are of a file with a block.   *)
Ready(s, r) ==
  /\ r.pc = "idle" \/ (r.call.op = "open" /\ r.pc # "handle") => r.offset = 0
  /\ r.call.op = "open" /\ r.pc = "handle" /\ r.ino \in Kept(first) /\ r.offset > 0
       => Backed(s, r.ino)
  /\ r.call.op = "write" /\ r.pc = "put" /\ r.call.text # <<>>
       => (s.file[r.call.h].inum \in Kept(first) => Backed(s, s.file[r.call.h].inum))
  /\ r.call.op = "read" /\ r.pc = "copy" /\ r.offset # 0
       => Backed(s, s.file[r.call.h].inum)

(* The handles that are read are of files that keep a name. *)
ReadsKept ==
  \A c \in Calls : c.op = "read" => c.h \in fs.opened /\ fs.file[c.h].inum \in Kept(first)

KeptInv ==
  /\ \A e \in Entries : first.dir[e].inum # None /\ first.dir[e].name \in KeptNames
                          => fs.dir[e] = first.dir[e]
  /\ ReadsKept
  /\ \A i \in Kept(first) : fs.inode[i].size > 0 => Backed(fs, i)
  /\ \A h \in fs.opened : fs.file[h].inum \in Kept(first) /\ fs.file[h].offset > 0
                            => Backed(fs, fs.file[h].inum)
  /\ \A t \in Threads : Ready(fs, thread[t])
  /\ NoAbort

(* No step empties an entry whose name is kept. *)
LEMMA EntriesStay ==
  ASSUME LockInv, NEW t \in Threads, Step(t),
         NEW e \in Entries, fs.dir[e].inum # None, fs.dir[e].name \in KeptNames
  PROVE  fs'.dir[e] = fs.dir[e]
<1>1. fs \in Tables /\ Placed(t, thread[t])
  BY DEF LockInv
<1>2. ASSUME NEW s, NEW ret, Finish(t, Return(s, ret)) PROVE fs' = s
  BY <1>2 DEF Finish, Return
<1>3. \A name, i : AddDirEntry(fs, name, i).dir[e] = fs.dir[e]
  <2> TAKE name, i
  <2> DEFINE x == Min({y \in Entries : fs.dir[y].inum = None})
  <2>1. CASE Addable(fs, name)
    <3>1. fs.dir[x].inum = None
      BY <2>1, FreeEntry DEF Addable
    <3>2. x # e /\ AddDirEntry(fs, name, i) = [fs EXCEPT !.dir[x] = [name |-> name, inum |-> i]]
      BY <2>1, <3>1 DEF AddDirEntry
    <3> HIDE DEF x
    <3> QED
      BY <1>1, <3>2 DEF Tables
  <2> QED
    BY <2>1 DEF AddDirEntry
<1>4. ASSUME NEW name, name \notin KeptNames PROVE ClearDirEntry(fs, name).dir[e] = fs.dir[e]
  <2> DEFINE found == {y \in Entries : fs.dir[y].name = name}
  <2>1. CASE found # {}
    <3>1. Min(found) \in found
      BY <2>1, Sizes, MinIsLeast
    <3>2. ClearDirEntry(fs, name) = [fs EXCEPT !.dir[Min(found)] = [name |-> NoName, inum |-> None]]
      BY <2>1 DEF ClearDirEntry
    <3>3. Min(found) # e
      BY <1>4, <3>1
    <3> HIDE DEF found
    <3> QED
      BY <1>1, <3>2, <3>3 DEF Tables
  <2> QED
    BY <2>1 DEF ClearDirEntry
<1>5. ASSUME UNCHANGED fs PROVE fs'.dir[e] = fs.dir[e]
  BY <1>5
<1>6. CASE OpenLock(t) \/ OpenRelock(t) \/ OpenSeek(t) \/ DataLock(t) \/ WriteLock(t) \/ ReadLock(t)
  BY <1>6 DEF OpenLock, OpenRelock, OpenSeek, DataLock, WriteLock, ReadLock
<1>7. CASE OpenCut(t) \/ OpenShrink(t) \/ CreatFill(t)
  BY <1>1, <1>7 DEF OpenCut, OpenShrink, CreatFill, Tables
<1>8. CASE OpenHop(t)
  BY <1>2, <1>8 DEF OpenHop
<1>9. CASE OpenHandle(t)
  BY <1>9 DEF OpenHandle, Finish, AddToOpenFileTable, Return
<1>10. CASE Creat(t) \/ SymLock(t)
  <2>1. \A i : [fs EXCEPT !.inodes = @ \cup {i}].dir = fs.dir
    BY <1>1 DEF Tables
  <2>2. CASE Creat(t)
    BY <1>2, <2>1, <2>2 DEF Creat
  <2>3. CASE SymLock(t)
    BY <1>2, <2>1, <2>3 DEF SymLock
  <2> QED
    BY <1>10, <2>2, <2>3
<1>11. CASE CreatEnter(t)
  BY <1>3, <1>11 DEF CreatEnter
<1>12. CASE CreatUndo(t)
  <2>1. fs' = InodeDelete(fs, Ino(t))
    BY <1>2, <1>12 DEF CreatUndo
  <2> QED
    BY <2>1 DEF InodeDelete
<1>13. CASE SymFill(t)
  <2>1. fs' = FillLink(fs, thread[t].new).fs
    BY <1>13 DEF SymFill, Finish
  <2> QED
    BY <2>1 DEF FillLink, Return
<1>14. CASE SymText(t)
  BY <1>14 DEF SymText, StoreTarget, Store
<1>15. CASE SymEnter(t)
  BY <1>2, <1>3, <1>15 DEF SymEnter
<1>16. CASE LinkLock(t)
  <2>1. fs' = fs \/ fs' = [fs EXCEPT !.inode[Ino(t)].count = @ + 1]
    BY <1>2, <1>16 DEF LinkLock
  <2> QED
    BY <1>1, <2>1 DEF Tables
<1>17. CASE LinkEnter(t)
  BY <1>2, <1>3, <1>17 DEF LinkEnter
<1>18. CASE UnlinkLock(t)
  <2>1. fs' = ClearDirEntry(fs, Call(t).path) /\ Call(t).op = "unlink"
    BY <1>18 DEF UnlinkLock, At
  <2>2. Call(t) \in Calls
    BY <1>1, <1>18 DEF UnlinkLock, At, Placed, Call
  <2> QED
    BY <1>4, <2>1, <2>2 DEF KeptNames
<1>19. CASE UnlinkDrop(t)
  <2>1. fs' = DropLink(fs, Ino(t)).fs
    BY <1>19 DEF UnlinkDrop, Finish
  <2> QED
    BY <2>1 DEF DropLink, InodeDelete, Return
<1>20. CASE WriteSpace(t)
  <2>1. fs' = Reserve(fs, Call(t).h).fs
    BY <1>20 DEF WriteSpace, Finish
  <2> QED
    BY <2>1 DEF Reserve, Return
<1>21. CASE WritePut(t)
  <2>1. fs' = Put(fs, Call(t).h, Call(t).text).fs /\ Call(t).h \in Handles
        /\ Call(t) \in Calls /\ Call(t).op = "write"
    BY <1>1, <1>21 DEF WritePut, Finish, At, Placed, Call
  <2>2. Call(t).text \in Seq(Bytes)
    BY <2>1, ThreadsAssumption DEF IsCall
  <2>3. ToWrite(fs, Call(t).h, Call(t).text) \in Int
    BY <1>1, <2>1, <2>2, ToWriteType
  <2> QED
    BY <1>1, <2>1, <2>2, <2>3, PutMoves
<1>22. CASE ReadCopy(t)
  <2>1. fs' = Copy(fs, Call(t).h, thread[t].offset).fs /\ Call(t).h \in Handles
    BY <1>1, <1>22 DEF ReadCopy, Finish, At, Placed, Call
  <2> QED
    BY <1>1, <2>1, CopyMoves
<1>23. CASE CloseFile(t)
  <2>1. fs' = fs \/ fs' = [fs EXCEPT !.opened = @ \ {Call(t).h}]
    BY <1>23 DEF CloseFile, Finish, Close, Return
  <2> QED
    BY <1>1, <2>1 DEF Tables
<1> QED
  BY <1>6, <1>7, <1>8, <1>9, <1>10, <1>11, <1>12, <1>13, <1>14, <1>15, <1>16, <1>17, <1>18,
     <1>19, <1>20, <1>21, <1>22, <1>23 DEF Step

(* A file with a kept name stands in the directory, and nobody makes it. *)
LEMMA KeptStands ==
  ASSUME LockInv, NameInv, KeptInv, NEW i \in Kept(first)
  PROVE  /\ i \in fs.inodes \ {Root} /\ i \in Inums /\ Naming(fs, i) # {}
         /\ \A u \in Threads : Makes(thread[u]) => Made(thread[u]) # i
<1>1. PICK e \in Entries : first.dir[e].inum = i /\ first.dir[e].name \in KeptNames
  BY DEF Kept
<1>2. i \in Inums /\ i # None
  BY Sizes DEF Kept
<1>3. fs.dir[e].inum = i
  BY <1>1, <1>2 DEF KeptInv
<1>4. Naming(fs, i) # {}
  BY <1>3 DEF Naming
<1>5. i \in fs.inodes \ {Root}
  BY <1>2, <1>3 DEF NameInv, NamesOK
<1>6. ASSUME NEW u \in Threads, Makes(thread[u]) PROVE Made(thread[u]) # i
  BY <1>4, <1>6 DEF NameInv, Stands
<1> QED
  BY <1>2, <1>4, <1>5, <1>6

(* Callers do not close a handle that is read. *)
ReadsStayOpen == \A c, d \in Calls : c.op = "read" /\ d.op = "close" => c.h # d.h

(* The threads find the file system of their start. *)
LEMMA FirstSame == ASSUME NEW t \in Threads, Step(t) PROVE first' = first
BY DEF Step, OpenLock, OpenHop, OpenRelock, OpenCut, OpenShrink, OpenSeek, OpenHandle,
       Creat, CreatFill, CreatEnter, CreatUndo, SymLock, SymFill, SymText, SymEnter,
       LinkLock, LinkEnter, UnlinkLock, UnlinkDrop, DataLock, WriteLock, WriteSpace, WritePut,
       ReadLock, ReadCopy, CloseFile

(* A step keeps what reads need, when it takes no block from a kept file   *)
(* and turns no open handle to another file.                               *)
LEMMA KeptStep ==
  ASSUME ReadsStayOpen, LockInv, HandlesStay, KeptInv, NEW t \in Threads, Step(t),
         \A i \in Kept(first) : /\ fs'.inode[i].size > 0 => Backed(fs', i)
                                /\ Backed(fs, i) => Backed(fs', i),
         \A h \in fs.opened : fs'.file[h].inum = fs.file[h].inum,
         \A h \in fs'.opened : fs'.file[h].inum \in Kept(first) /\ fs'.file[h].offset > 0
                                 => Backed(fs', fs'.file[h].inum),
         Ready(fs', thread'[t]), thread'[t].ret # Abort
  PROVE  KeptInv'
<1>1. /\ first' = first /\ Call(t) \in Calls /\ t \in Running
      /\ \A u \in Threads \ {t} : thread'[u] = thread[u]
  <2>1. thread[t].pc \notin {"idle", "done"} /\ Placed(t, thread[t])
    BY StepsAlone DEF LockInv
  <2> QED
    BY <2>1, FirstSame, StepsAlone DEF Placed, Call, Running
<1>2. ASSUME NEW e \in Entries, first.dir[e].inum # None, first.dir[e].name \in KeptNames
      PROVE  fs'.dir[e] = first.dir[e]
  <2>1. fs.dir[e] = first.dir[e]
    BY <1>2 DEF KeptInv
  <2> QED
    BY <1>2, <2>1, EntriesStay
<1>3. ASSUME NEW c \in Calls, c.op = "read"
      PROVE  c.h \in fs.opened /\ c.h \in fs'.opened /\ fs'.file[c.h].inum = fs.file[c.h].inum
             /\ fs.file[c.h].inum \in Kept(first)
  <2>1. c.h \in fs.opened /\ fs.file[c.h].inum \in Kept(first)
    BY <1>3 DEF KeptInv, ReadsKept
  <2>2. Call(t).op = "close" => Call(t).h # c.h
    BY <1>1, <1>3 DEF ReadsStayOpen
  <2>3. c.h \in fs'.opened
    BY <2>1, <2>2, OnlyClosesClose
  <2> QED
    BY <2>1, <2>3
<1>4. ReadsKept'
  BY <1>1, <1>3 DEF ReadsKept, Kept
<1>5. ASSUME NEW u \in Threads, u # t PROVE Ready(fs', thread[u])
  <2> DEFINE r == thread[u]
  <2>1. Ready(fs, r) /\ Placed(u, r)
    BY DEF KeptInv, LockInv
  <2>2. CASE r.call.op = "open" /\ r.pc = "handle"
    BY <2>1, <2>2 DEF Ready
  <2>3. CASE r.call.op = "write" /\ r.pc = "put"
    <3>1. r.call.h \in fs.opened
      BY <2>3 DEF HandlesStay, Running, Call, OnHandle
    <3> QED
      BY <2>1, <2>3, <3>1 DEF Ready
  <2>4. CASE r.call.op = "read" /\ r.pc = "copy"
    <3>1. r.call \in Calls
      BY <2>1, <2>4 DEF Placed
    <3> QED
      BY <1>3, <2>1, <2>4, <3>1 DEF Ready
  <2>5. CASE /\ ~(r.call.op = "open" /\ r.pc = "handle") /\ ~(r.call.op = "write" /\ r.pc = "put")
             /\ ~(r.call.op = "read" /\ r.pc = "copy")
    BY <2>1, <2>5 DEF Ready
  <2> QED
    BY <2>2, <2>3, <2>4, <2>5
<1>6. \A u \in Threads : Ready(fs', thread'[u])
  BY <1>1, <1>5
<1>7. (\A u \in Threads : Ready(fs, thread[u]))'
  BY <1>1, <1>6 DEF Ready, Kept, Backed
<1>8. NoAbort'
  BY <1>1 DEF KeptInv, NoAbort
<1>9. /\ (\A i \in Kept(first) : fs.inode[i].size > 0 => Backed(fs, i))'
      /\ (\A h \in fs.opened : fs.file[h].inum \in Kept(first) /\ fs.file[h].offset > 0
                            => Backed(fs, fs.file[h].inum))'
  BY <1>1 DEF Kept, Backed
<1>10. (\A e \in Entries : first.dir[e].inum # None /\ first.dir[e].name \in KeptNames
                            => fs.dir[e] = first.dir[e])'
  BY <1>1, <1>2
<1> QED
  BY <1>4, <1>7, <1>8, <1>9, <1>10 DEF KeptInv

(* Such is a step that leaves the open files and the sizes and blocks of   *)
(* the files that are kept.                                                *)
LEMMA QuietKept ==
  ASSUME ReadsStayOpen, LockInv, HandlesStay, KeptInv, NEW t \in Threads, Step(t),
         \A i \in Kept(first) : /\ fs'.inode[i].size = fs.inode[i].size
                                /\ fs'.inode[i].block = fs.inode[i].block,
         fs'.file = fs.file, fs'.opened \subseteq fs.opened,
         Ready(fs', thread'[t]), thread'[t].ret # Abort
  PROVE  KeptInv'
<1>1. \A i \in Kept(first) : /\ fs'.inode[i].size > 0 => Backed(fs', i)
                             /\ Backed(fs, i) => Backed(fs', i)
  BY DEF KeptInv, Backed
<1>2. \A h \in fs'.opened : fs'.file[h].inum \in Kept(first) /\ fs'.file[h].offset > 0
                              => Backed(fs', fs'.file[h].inum)
  BY <1>1 DEF KeptInv
<1> QED
  BY <1>1, <1>2, KeptStep

(* Where a call has nothing to find in the tables. *)
LEMMA ReadyAnyway ==
  ASSUME NEW s, NEW r, r.pc # "idle",
         \/ r.call.op \notin {"open", "write", "read"}
         \/ r.call.op = "open" /\ r.offset = 0
         \/ r.call.op \in {"write", "read"} /\ r.pc \notin {"put", "copy"}
         \/ r.pc = "done" /\ r.offset = 0
  PROVE  Ready(s, r)
BY DEF Ready

(* tfs_open of a file that is there. *)
LEMMA OpenKept ==
  ASSUME ReadsStayOpen, LockInv, HandlesStay, KeptInv, NEW t \in Threads,
         \/ OpenLock(t) \/ OpenHop(t) \/ OpenRelock(t) \/ OpenCut(t) \/ OpenShrink(t)
         \/ OpenSeek(t) \/ OpenHandle(t)
  PROVE  KeptInv'
<1> DEFINE r == thread[t]
           i == Ino(t)
<1>1. /\ Step(t) /\ r.call.op = "open" /\ i = r.ino /\ i \in Inums /\ fs \in Tables
      /\ r \in Registers /\ thread \in [Threads -> Registers] /\ Ready(fs, r) /\ r.ret # Abort
      /\ r.offset \in Nat /\ r.pc # "idle" /\ (r.pc # "handle" => r.offset = 0)
  <2>1. /\ Step(t) /\ Call(t).op = "open"
        /\ r.pc \in {"lock", "hop", "relock", "cut", "shrink", "seek", "handle"}
    BY DEF Step, OpenLock, OpenHop, OpenRelock, OpenCut, OpenShrink, OpenSeek, OpenHandle, At
  <2>2. /\ Placed(t, r) /\ Ready(fs, r) /\ r.ret # Abort /\ fs \in Tables /\ r \in Registers
        /\ thread \in [Threads -> Registers]
    BY DEF LockInv, KeptInv, NoAbort
  <2>3. r.offset \in Nat
    BY <2>2 DEF Registers
  <2> QED
    BY <2>1, <2>2, <2>3 DEF Placed, Call, Ino, Ready
<1>2. Kept(first) \subseteq Inums
  BY DEF Kept
<1>3. ASSUME NEW step, Goto(t, step) \/ \E k : GotoWith(t, step, k),
             step \notin {"idle", "handle"}, r.pc # "handle"
      PROVE  \A s : Ready(s, thread'[t]) /\ thread'[t].ret # Abort
  <2>1. /\ thread'[t].pc = step /\ thread'[t].call = r.call /\ thread'[t].offset = 0
        /\ thread'[t].ret = r.ret
    BY <1>1, <1>3, AfterStep
  <2> QED
    BY <1>1, <1>3, <2>1, ReadyAnyway
<1>4. CASE OpenLock(t) \/ OpenRelock(t)
  <2>1. fs' = fs
    BY <1>4 DEF OpenLock, OpenRelock
  <2>2. r.pc # "handle" /\ \E step \in {"hop", "cut", "seek"} : Goto(t, step)
    BY <1>4 DEF OpenLock, OpenRelock, At
  <2>3. Ready(fs', thread'[t]) /\ thread'[t].ret # Abort
    BY <1>3, <2>2
  <2> QED
    BY <1>1, <2>1, <2>3, QuietKept
<1>5. CASE OpenHop(t)
  <2>1. r.pc = "hop"
    BY <1>5 DEF OpenHop, At
  <2>2. \/ fs' = fs /\ Goto(t, "relock")
        \/ Finish(t, Return(fs, None))
        \/ fs' = fs /\ \E k : GotoWith(t, "hop", k)
    BY <1>5 DEF OpenHop
  <2>3. ASSUME Finish(t, Return(fs, None))
        PROVE  fs' = fs /\ Ready(fs', thread'[t]) /\ thread'[t].ret # Abort
    <3>1. fs' = fs /\ thread'[t].pc = "done" /\ thread'[t].offset = 0 /\ thread'[t].ret = None
      BY <2>3, AfterStep
    <3> QED
      BY <3>1, ReadyAnyway DEF None, Abort
  <2>4. ASSUME NEW step \in {"hop", "relock"}, Goto(t, step) \/ \E k : GotoWith(t, step, k)
        PROVE  Ready(fs', thread'[t]) /\ thread'[t].ret # Abort
    BY <1>3, <2>1, <2>4
  <2>5. fs' = fs /\ Ready(fs', thread'[t]) /\ thread'[t].ret # Abort
    BY <2>2, <2>3, <2>4
  <2> QED
    BY <1>1, <2>5, QuietKept
<1>6. CASE OpenCut(t)
  <2>1. /\ fs'.inode = fs.inode /\ fs'.file = fs.file /\ fs'.opened = fs.opened
        /\ Goto(t, "shrink") /\ r.pc = "cut"
    BY <1>6 DEF OpenCut, At
  <2>2. Ready(fs', thread'[t]) /\ thread'[t].ret # Abort
    BY <1>3, <2>1
  <2> QED
    BY <1>1, <2>1, <2>2, QuietKept
<1>7. CASE OpenShrink(t)
  <2>1. fs' = [fs EXCEPT !.inode[i].size = 0] /\ Goto(t, "seek") /\ r.pc = "shrink"
    BY <1>7 DEF OpenShrink, At
  <2>2. Ready(fs', thread'[t]) /\ thread'[t].ret # Abort
    BY <1>3, <2>1
  <2> HIDE DEF i
  <2>3. /\ fs'.file = fs.file /\ fs'.opened = fs.opened /\ fs'.inode[i].size = 0
        /\ fs'.inode[i].block = fs.inode[i].block
        /\ \A k \in Inums \ {i} : fs'.inode[k] = fs.inode[k]
    BY <1>1, <2>1 DEF Tables, Inodes
  <2>4. \A k \in Kept(first) : /\ fs'.inode[k].size > 0 => Backed(fs', k)
                               /\ Backed(fs, k) => Backed(fs', k)
    BY <1>2, <2>3 DEF KeptInv, Backed
  <2>5. \A h \in fs'.opened : fs'.file[h].inum \in Kept(first) /\ fs'.file[h].offset > 0
                              => Backed(fs', fs'.file[h].inum)
    BY <2>3, <2>4 DEF KeptInv
  <2> QED
    BY <1>1, <2>2, <2>3, <2>4, <2>5, KeptStep
<1>8. CASE OpenSeek(t)
  <2> DEFINE n == IF "append" \in Call(t).mode THEN fs.inode[i].size ELSE 0
  <2>1. fs' = fs /\ thread' = [thread EXCEPT ![t].pc = "handle", ![t].offset = n]
    BY <1>8 DEF OpenSeek
  <2> HIDE DEF i
  <2>2. n \in {0, fs.inode[i].size}
    OBVIOUS
  <2> HIDE DEF n
  <2>3. /\ thread'[t].pc = "handle" /\ thread'[t].offset = n /\ thread'[t].ino = r.ino
        /\ thread'[t].call = r.call /\ thread'[t].ret = r.ret
    BY <1>1, <2>1 DEF Registers
  <2>4. n > 0 /\ i \in Kept(first) => Backed(fs, i)
    BY <2>2 DEF KeptInv
  <2>5. Ready(fs, thread'[t])
    BY <1>1, <2>3, <2>4 DEF Ready
  <2> QED
    BY <1>1, <2>1, <2>3, <2>5, QuietKept
<1>9. CASE OpenHandle(t)
  <2> DEFINE h == FirstFree(Handles, fs.opened)
             e == AddToOpenFileTable(fs, i, r.offset)
  <2>1. Finish(t, e) /\ r.pc = "handle"
    BY <1>9 DEF OpenHandle, At
  <2>2. fs' = e.fs /\ thread'[t].pc = "done" /\ thread'[t].offset = 0 /\ thread'[t].ret = e.ret
    BY <2>1, AfterStep
  <2>3. h \in (Handles \ fs.opened) \cup {None}
    BY FirstFreeType, Sizes
  <2>4. e.ret # Abort
    <3>1. e.ret \in {h, None}
      BY DEF AddToOpenFileTable, Return
    <3> HIDE DEF e, h
    <3> QED
      BY <2>3, <3>1, Sizes DEF Abort
  <2>5. Ready(fs', thread'[t])
    BY <2>2, ReadyAnyway
  <2>6. CASE h = None
    <3>1. fs' = fs
      BY <2>2, <2>6 DEF AddToOpenFileTable, Return
    <3> HIDE DEF h, e, i
    <3> QED
      BY <1>1, <2>2, <2>4, <2>5, <3>1, QuietKept
  <2>7. CASE h # None
    <3>1. fs' = [fs EXCEPT !.opened = @ \cup {h}, !.file[h] = [inum |-> i, offset |-> r.offset]]
      BY <2>2, <2>7 DEF AddToOpenFileTable, Return
    <3>2. i \in Kept(first) /\ r.offset > 0 => Backed(fs, i)
      BY <1>1, <2>1 DEF Ready
    <3> HIDE DEF h, e, i
    <3>3. /\ fs'.opened = fs.opened \cup {h} /\ fs'.inode = fs.inode
          /\ fs'.file = [fs.file EXCEPT ![h] = [inum |-> i, offset |-> r.offset]]
          /\ h \in DOMAIN fs.file /\ h \notin fs.opened
      BY <1>1, <2>3, <2>7, <3>1 DEF Tables
    <3>4. \A g \in fs.opened : fs'.file[g] = fs.file[g]
      BY <3>3
    <3>5. fs'.file[h].inum = i /\ fs'.file[h].offset = r.offset
      BY <3>3
    <3>6. \A k : Backed(fs', k) <=> Backed(fs, k)
      BY <3>3 DEF Backed
    <3>7. \A g \in fs'.opened : fs'.file[g].inum \in Kept(first) /\ fs'.file[g].offset > 0
                              => Backed(fs', fs'.file[g].inum)
      <4> SUFFICES ASSUME NEW g \in fs'.opened, fs'.file[g].inum \in Kept(first),
                          fs'.file[g].offset > 0
                   PROVE  Backed(fs', fs'.file[g].inum)
        OBVIOUS
      <4>1. CASE g = h
        BY <3>2, <3>5, <3>6, <4>1
      <4>2. CASE g \in fs.opened
        BY <3>4, <3>6, <4>2 DEF KeptInv
      <4> QED
        BY <3>3, <4>1, <4>2
    <3>8. \A k \in Kept(first) : /\ fs'.inode[k].size > 0 => Backed(fs', k)
                                 /\ Backed(fs, k) => Backed(fs', k)
      BY <3>3, <3>6 DEF KeptInv
    <3> QED
      BY <1>1, <2>2, <2>4, <2>5, <3>4, <3>7, <3>8, KeptStep
  <2> QED
    BY <2>6, <2>7
<1> QED
  BY <1>4, <1>5, <1>6, <1>7, <1>8, <1>9

(* tfs_open of a new file: the inode it fills has no name. *)
LEMMA CreatKept ==
  ASSUME ReadsStayOpen, LockInv, HandlesStay, NameInv, KeptInv, NEW t \in Threads,
         Creat(t) \/ CreatFill(t) \/ CreatEnter(t) \/ CreatUndo(t)
  PROVE  KeptInv'
<1> DEFINE r == thread[t]
           i == Ino(t)
<1>1. /\ Step(t) /\ r.call.op = "open" /\ i = r.ino /\ fs \in Tables /\ r.ret # Abort
      /\ r.offset = 0 /\ r.pc \in {"alloc", "fill", "enter", "undo"}
  <2>1. Step(t) /\ Call(t).op = "open" /\ r.pc \in {"alloc", "fill", "enter", "undo"}
    BY DEF Step, Creat, CreatFill, CreatEnter, CreatUndo, At
  <2>2. Ready(fs, r) /\ r.ret # Abort /\ fs \in Tables
    BY DEF LockInv, KeptInv, NoAbort
  <2> QED
    BY <2>1, <2>2 DEF Call, Ino, Ready
<1>2. Kept(first) \subseteq Inums
  BY DEF Kept
<1>3. ASSUME NEW step, Goto(t, step) \/ \E k : GotoWith(t, step, k), step # "idle"
      PROVE  Ready(fs', thread'[t]) /\ thread'[t].ret # Abort
  <2>1. /\ thread'[t].pc = step /\ thread'[t].call = r.call /\ thread'[t].offset = 0
        /\ thread'[t].ret = r.ret
    BY <1>1, <1>3, AfterStep
  <2> QED
    BY <1>1, <1>3, <2>1, ReadyAnyway
<1>4. ASSUME NEW s, Finish(t, Return(s, None))
      PROVE  fs' = s /\ Ready(fs', thread'[t]) /\ thread'[t].ret # Abort
  <2>1. fs' = s /\ thread'[t].pc = "done" /\ thread'[t].offset = 0 /\ thread'[t].ret = None
    BY <1>4, AfterStep
  <2> QED
    BY <2>1, ReadyAnyway DEF None, Abort
<1>5. CASE Creat(t)
  <2>1. \/ Finish(t, Return(fs, None))
        \/ \E k : fs' = [fs EXCEPT !.inodes = @ \cup {k}] /\ GotoWith(t, "fill", k)
    BY <1>5 DEF Creat
  <2>2. fs'.inode = fs.inode /\ fs'.file = fs.file /\ fs'.opened = fs.opened
    BY <1>1, <1>4, <2>1 DEF Tables
  <2>3. Ready(fs', thread'[t]) /\ thread'[t].ret # Abort
    BY <1>3, <1>4, <2>1
  <2> QED
    BY <1>1, <2>2, <2>3, QuietKept
<1>6. CASE CreatFill(t)
  <2>1. fs' = [fs EXCEPT !.inode[i] = NewFile] /\ Goto(t, "enter") /\ r.pc = "fill"
    BY <1>6 DEF CreatFill, At
  <2>2. Makes(r) /\ Made(r) = i
    BY <1>1, <2>1 DEF Makes, Made
  <2>3. i \notin Kept(first)
    BY <2>2, KeptStands
  <2>4. Ready(fs', thread'[t]) /\ thread'[t].ret # Abort
    BY <1>3, <2>1
  <2> HIDE DEF i
  <2>5. /\ fs'.file = fs.file /\ fs'.opened = fs.opened
        /\ \A k \in Inums \ {i} : fs'.inode[k] = fs.inode[k]
    BY <1>1, <2>1 DEF Tables
  <2> QED
    BY <1>1, <1>2, <2>3, <2>4, <2>5, QuietKept
<1>7. CASE CreatEnter(t)
  <2>1. fs' = AddDirEntry(fs, Call(t).path, i) /\ \E step \in {"handle", "undo"} : Goto(t, step)
    BY <1>7 DEF CreatEnter
  <2>2. fs'.inode = fs.inode /\ fs'.file = fs.file /\ fs'.opened = fs.opened
    BY <2>1 DEF AddDirEntry
  <2>3. Ready(fs', thread'[t]) /\ thread'[t].ret # Abort
    BY <1>3, <2>1
  <2> QED
    BY <1>1, <2>2, <2>3, QuietKept
<1>8. CASE CreatUndo(t)
  <2>1. Finish(t, Return(InodeDelete(fs, i), None))
    BY <1>8 DEF CreatUndo
  <2>2. fs' = InodeDelete(fs, i)
    BY <1>4, <2>1
  <2>3. fs'.inode = fs.inode /\ fs'.file = fs.file /\ fs'.opened = fs.opened
    BY <2>2 DEF InodeDelete
  <2> QED
    BY <1>1, <1>4, <2>1, <2>3, QuietKept
<1> QED
  BY <1>5, <1>6, <1>7, <1>8

(* tfs_sym_link, which fills an inode without a name too, and tfs_link and *)
(* tfs_unlink, which leave sizes and blocks.                               *)
LEMMA NamesKept ==
  ASSUME ReadsStayOpen, LockInv, HandlesStay, NameInv, KeptInv, NEW t \in Threads,
         \/ SymLock(t) \/ SymFill(t) \/ SymText(t) \/ SymEnter(t)
         \/ LinkLock(t) \/ LinkEnter(t) \/ UnlinkLock(t) \/ UnlinkDrop(t),
         Call(t).op = "unlink" => thread'[t].ret # Abort
  PROVE  KeptInv'
<1> DEFINE r == thread[t]
           Stays == /\ fs'.file = fs.file /\ fs'.opened = fs.opened
                    /\ \A i \in Kept(first) : /\ fs'.inode[i].size = fs.inode[i].size
                                              /\ fs'.inode[i].block = fs.inode[i].block
<1>1. /\ Step(t) /\ r.call.op \in {"sym_link", "link", "unlink"} /\ Call(t) = r.call
      /\ fs \in Tables /\ r.ret # Abort /\ r.pc # "idle" /\ r \in Registers
      /\ thread \in [Threads -> Registers]
      /\ r.call.op # "sym_link" => Ino(t) \in Inums
  <2>1. /\ Step(t) /\ Call(t).op \in {"sym_link", "link", "unlink"}
        /\ r.pc \in {"lock", "fill", "text", "enter", "drop"}
    BY DEF Step, SymLock, SymFill, SymText, SymEnter, LinkLock, LinkEnter, UnlinkLock, UnlinkDrop, At
  <2>2. Placed(t, r) /\ r.ret # Abort /\ fs \in Tables /\ r \in Registers
        /\ thread \in [Threads -> Registers]
    BY DEF LockInv, KeptInv, NoAbort
  <2> QED
    BY <2>1, <2>2 DEF Placed, Call, Ino
<1>2. Kept(first) \subseteq Inums
  BY DEF Kept
<1>3. thread'[t].call = r.call
  BY <1>1, StepsAlone
<1>4. ASSUME NEW step, Goto(t, step), step # "idle"
      PROVE  thread'[t].pc # "idle" /\ thread'[t].ret # Abort
  BY <1>1, <1>4, AfterStep
<1>5. ASSUME NEW s, NEW ret, Finish(t, Return(s, ret))
      PROVE  fs' = s /\ thread'[t].pc # "idle" /\ thread'[t].ret = ret
  BY <1>5, AfterStep
<1>6. None # Abort /\ 0 # Abort
  BY DEF None, Abort
<1>7. ASSUME Stays, thread'[t].pc # "idle", thread'[t].ret # Abort PROVE KeptInv'
  <2>1. Ready(fs', thread'[t])
    BY <1>1, <1>3, <1>7, ReadyAnyway
  <2> QED
    BY <1>1, <1>7, <2>1, QuietKept
<1>8. ASSUME fs'.file = fs.file, fs'.opened = fs.opened, fs'.inode = fs.inode PROVE Stays
  BY <1>8
<1> HIDE DEF Stays
<1>9. CASE SymLock(t)
  <2>1. \/ Finish(t, Return(fs, None))
        \/ \E k : /\ fs' = [fs EXCEPT !.inodes = @ \cup {k}]
                  /\ thread' = [thread EXCEPT ![t].pc = "fill", ![t].new = k]
    BY <1>9 DEF SymLock
  <2>2. CASE Finish(t, Return(fs, None))
    BY <1>5, <1>6, <1>7, <1>8, <2>2
  <2>3. ASSUME NEW k, fs' = [fs EXCEPT !.inodes = @ \cup {k}],
               thread' = [thread EXCEPT ![t].pc = "fill", ![t].new = k]
        PROVE  KeptInv'
    <3>1. thread'[t].pc = "fill" /\ thread'[t].ret = r.ret
      BY <1>1, <2>3 DEF Registers
    <3>2. Stays
      BY <1>1, <1>8, <2>3 DEF Tables
    <3> QED
      BY <1>1, <1>7, <3>1, <3>2
  <2> QED
    BY <2>1, <2>2, <2>3
<1>10. CASE SymFill(t)
  <2> DEFINE i == r.new
             e == FillLink(fs, i)
  <2>1. r.pc = "fill" /\ r.call.op = "sym_link"
    BY <1>10 DEF SymFill, At, Call
  <2>2. Makes(r) /\ Made(r) = i
    BY <2>1 DEF Makes, Made
  <2>3. i \notin Kept(first)
    BY <2>2, KeptStands
  <2>4. fs' = e.fs
    BY <1>10 DEF SymFill, Finish
  <2>5. thread'[t].pc # "idle" /\ thread'[t].ret # Abort
    <3>1. (e.ret = None /\ Finish(t, e)) \/ Goto(t, "text")
      BY <1>10 DEF SymFill
    <3>2. CASE Goto(t, "text")
      BY <1>4, <3>2
    <3>3. CASE e.ret = None /\ Finish(t, e)
      BY <1>6, <3>3, AfterStep
    <3> QED
      BY <3>1, <3>2, <3>3
  <2>6. Stays
    <3> HIDE DEF i
    <3>1. /\ e.fs.file = fs.file /\ e.fs.opened = fs.opened
          /\ \A k \in Inums \ {i} : e.fs.inode[k] = fs.inode[k]
      BY <1>1 DEF FillLink, Return, Tables
    <3> QED
      BY <1>2, <2>3, <2>4, <3>1 DEF Stays
  <2> QED
    BY <1>7, <2>5, <2>6
<1>11. CASE SymText(t)
  <2>1. fs' = StoreTarget(fs, r.new, Call(t).path) /\ Goto(t, "enter")
    BY <1>11 DEF SymText
  <2>2. Stays
    BY <1>8, <2>1 DEF StoreTarget, Store
  <2> QED
    BY <1>4, <1>7, <2>1, <2>2
<1>12. ASSUME NEW name, NEW i, Finish(t, Return(AddDirEntry(fs, name, i), 0)) PROVE KeptInv'
  <2>1. fs' = AddDirEntry(fs, name, i) /\ thread'[t].pc # "idle" /\ thread'[t].ret = 0
    BY <1>5, <1>12
  <2>2. Stays
    BY <1>8, <2>1 DEF AddDirEntry
  <2> QED
    BY <1>6, <1>7, <2>1, <2>2
<1>13. CASE SymEnter(t) \/ LinkEnter(t)
  BY <1>12, <1>13 DEF SymEnter, LinkEnter
<1>14. CASE LinkLock(t)
  <2>1. \/ Finish(t, Return(fs, None))
        \/ fs' = [fs EXCEPT !.inode[Ino(t)].count = @ + 1] /\ Goto(t, "enter")
    BY <1>14 DEF LinkLock
  <2>2. CASE Finish(t, Return(fs, None))
    BY <1>5, <1>6, <1>7, <1>8, <2>2
  <2>3. CASE fs' = [fs EXCEPT !.inode[Ino(t)].count = @ + 1] /\ Goto(t, "enter")
    <3>1. Stays
      BY <1>1, <1>2, <2>3 DEF Stays, Tables, Inodes
    <3> QED
      BY <1>4, <1>7, <2>3, <3>1
  <2> QED
    BY <2>1, <2>2, <2>3
<1>15. CASE UnlinkLock(t)
  <2>1. fs' = ClearDirEntry(fs, Call(t).path) /\ Goto(t, "drop")
    BY <1>15 DEF UnlinkLock
  <2>2. Stays
    BY <1>8, <2>1 DEF ClearDirEntry
  <2> QED
    BY <1>4, <1>7, <2>1, <2>2
<1>16. CASE UnlinkDrop(t)
  <2> DEFINE e == DropLink(fs, Ino(t))
  <2>1. Finish(t, e) /\ Call(t).op = "unlink"
    BY <1>16 DEF UnlinkDrop, At
  <2>2. fs' = e.fs /\ thread'[t].pc # "idle" /\ thread'[t].ret # Abort
    BY <2>1, AfterStep
  <2>3. Stays
    <3>1. \/ fs' = fs \/ fs' = [fs EXCEPT !.inode[Ino(t)].count = @ - 1]
          \/ fs' = InodeDelete(fs, Ino(t))
      BY <2>2 DEF DropLink, Return
    <3>2. CASE fs' = fs
      BY <1>8, <3>2
    <3>3. CASE fs' = InodeDelete(fs, Ino(t))
      <4>1. fs'.file = fs.file /\ fs'.opened = fs.opened /\ fs'.inode = fs.inode
        BY <3>3 DEF InodeDelete
      <4> QED
        BY <1>8, <4>1
    <3>4. CASE fs' = [fs EXCEPT !.inode[Ino(t)].count = @ - 1]
      BY <1>1, <1>2, <3>4 DEF Stays, Tables, Inodes
    <3> QED
      BY <3>1, <3>2, <3>3, <3>4
  <2> QED
    BY <1>7, <2>2, <2>3
<1> QED
  BY <1>9, <1>10, <1>11, <1>13, <1>14, <1>15, <1>16

(* tfs_write, tfs_read and tfs_close. *)
LEMMA DataKept ==
  ASSUME ReadsStayOpen, LockInv, HandlesStay, KeptInv, NEW t \in Threads,
         \/ DataLock(t) \/ WriteLock(t) \/ WriteSpace(t) \/ WritePut(t)
         \/ ReadLock(t) \/ ReadCopy(t) \/ CloseFile(t)
  PROVE  KeptInv'
<1> DEFINE r == thread[t]
           h == Call(t).h
           i == fs.file[h].inum
           off == fs.file[h].offset
<1>1. /\ Step(t) /\ Call(t) = r.call /\ r.call.op \in OnHandle /\ r.call \in Calls
      /\ fs \in Tables /\ r.ret # Abort /\ r.pc # "idle" /\ r \in Registers
      /\ thread \in [Threads -> Registers] /\ r.offset \in Nat /\ Ready(fs, r)
      /\ h \in Handles /\ h \in fs.opened /\ i \in Inums /\ off \in Nat
      /\ r.call.op = "read" => i \in Kept(first)
  <2>1. /\ Step(t) /\ Call(t).op \in OnHandle
        /\ r.pc \in {"lock", "file", "space", "put", "copy"}
    BY DEF Step, DataLock, WriteLock, WriteSpace, WritePut, ReadLock, ReadCopy, CloseFile, At, OnHandle
  <2>2. /\ Placed(t, r) /\ r.ret # Abort /\ fs \in Tables /\ r \in Registers
        /\ thread \in [Threads -> Registers] /\ Ready(fs, r)
    BY DEF LockInv, KeptInv, NoAbort
  <2>3. r.offset \in Nat
    BY <2>2 DEF Registers
  <2>4. t \in Running
    BY <2>1 DEF Running
  <2>5. h \in fs.opened
    BY <2>1, <2>4 DEF HandlesStay
  <2>6. h \in Handles /\ i \in Inums /\ off \in Nat
    BY <2>2, <2>5 DEF Tables
  <2>7. r.call \in Calls
    BY <2>1, <2>2 DEF Placed
  <2>8. r.call.op = "read" => i \in Kept(first)
    BY <2>7 DEF Call, KeptInv, ReadsKept
  <2> QED
    BY <2>1, <2>2, <2>3, <2>5, <2>6, <2>7, <2>8 DEF Call
<1>2. Kept(first) \subseteq Inums
  BY DEF Kept
<1>3. /\ i \in Kept(first) /\ fs.inode[i].size > 0 => Backed(fs, i)
      /\ i \in Kept(first) /\ off > 0 => Backed(fs, i)
  BY <1>1 DEF KeptInv
<1>4. thread'[t].call = r.call
  BY <1>1, StepsAlone
<1>5. ASSUME NEW step, Goto(t, step), step \in {"file", "space"}
      PROVE  \A s : Ready(s, thread'[t]) /\ thread'[t].ret # Abort
  <2>1. thread'[t].pc = step /\ thread'[t].ret = r.ret /\ thread'[t].call.op = r.call.op
    BY <1>4, <1>5, AfterStep
  <2> QED
    BY <1>1, <1>5, <2>1, ReadyAnyway DEF OnHandle
<1>6. ASSUME NEW e, Finish(t, e), e.ret # Abort
      PROVE  fs' = e.fs /\ Ready(fs', thread'[t]) /\ thread'[t].ret # Abort
  <2>1. fs' = e.fs /\ thread'[t].pc = "done" /\ thread'[t].offset = 0 /\ thread'[t].ret = e.ret
    BY <1>6, AfterStep
  <2> QED
    BY <1>6, <2>1, ReadyAnyway
<1>7. ASSUME NEW s, s.file[h].inum = i, Goto(t, "put"), r.call.op = "write",
             i \in Kept(first) /\ r.call.text # <<>> => Backed(s, i)
      PROVE  Ready(s, thread'[t]) /\ thread'[t].ret # Abort
  <2>1. thread'[t].pc = "put" /\ thread'[t].ret = r.ret /\ thread'[t].call = r.call
    BY <1>7, AfterStep
  <2> QED
    BY <1>1, <1>7, <2>1 DEF Ready
<1>8. None # Abort /\ 0 # Abort /\ Undefined # Abort
  BY DEF None, Abort, Undefined
<1>9. fs.inode[i].size \in Nat /\ off \in Nat /\ h \in Handles /\ fs \in Tables
  <2>1. ASSUME NEW k \in Inums PROVE fs.inode[k].size \in Nat
    BY <1>1, Sizes DEF Tables, Inodes
  <2> QED
    BY <1>1, <2>1
<1>10. CASE DataLock(t)
  <2>1. fs' = fs /\ Goto(t, "file")
    BY <1>10 DEF DataLock
  <2> QED
    BY <1>1, <1>5, <2>1, QuietKept
<1>11. ASSUME r.call.op = "write"
       PROVE  r.call.text \in Seq(Bytes) /\ ToWrite(fs, h, r.call.text) \in Int
              /\ (r.call.text # <<>> /\ ToWrite(fs, h, r.call.text) = 0 => off > 0)
  <2>1. r.call.text \in Seq(Bytes)
    BY <1>1, <1>11, ThreadsAssumption DEF IsCall
  <2>2. Len(r.call.text) = 0 => r.call.text = <<>>
    BY <2>1
  <2>3. LET n == ToWrite(fs, h, r.call.text)
        IN n \in Int /\ (n = Len(r.call.text) \/ n = BlockSize - off)
    BY <1>1, <2>1, ToWriteType
  <2> QED
    BY <1>1, <2>1, <2>2, <2>3, Sizes
<1>12. CASE WriteLock(t)
  <2>1. /\ fs' = fs /\ r.call.op = "write"
        /\ Goto(t, IF ToWrite(fs, h, r.call.text) # 0 /\ fs.inode[i].size = 0
                     THEN "space" ELSE "put")
    BY <1>1, <1>12 DEF WriteLock, At
  <2>2. Ready(fs, thread'[t]) /\ thread'[t].ret # Abort
    <3>1. CASE ToWrite(fs, h, r.call.text) # 0 /\ fs.inode[i].size = 0
      BY <1>5, <2>1, <3>1
    <3>2. CASE ~(ToWrite(fs, h, r.call.text) # 0 /\ fs.inode[i].size = 0)
      <4>1. r.call.text # <<>> => off > 0 \/ fs.inode[i].size > 0
        <5>1. CASE ToWrite(fs, h, r.call.text) = 0
          BY <1>11, <2>1, <5>1
        <5>2. CASE fs.inode[i].size # 0
          BY <1>9, <5>2
        <5> QED
          BY <3>2, <5>1, <5>2
      <4>2. i \in Kept(first) /\ r.call.text # <<>> => Backed(fs, i)
        BY <1>3, <4>1
      <4> QED
        BY <1>7, <2>1, <3>2, <4>2
    <3> QED
      BY <3>1, <3>2
  <2> QED
    BY <1>1, <2>1, <2>2, QuietKept
<1>13. CASE WriteSpace(t)
  <2> DEFINE b == FirstFree(Blocks, fs.blocks)
             e == Reserve(fs, h)
  <2>1. /\ r.call.op = "write" /\ fs' = e.fs
        /\ (e.ret = None /\ Finish(t, e)) \/ (e.ret # None /\ Goto(t, "put"))
    BY <1>1, <1>13 DEF WriteSpace, At, Finish
  <2> HIDE DEF h, i
  <2>2. CASE fs.inode[i].size > 0 \/ b = None
    <3>1. e.fs = fs /\ e.ret \in {None, fs.inode[i].block}
      BY <2>2 DEF Reserve, Return, i
    <3>2. Ready(fs, thread'[t]) /\ thread'[t].ret # Abort
      <4>1. CASE e.ret = None /\ Finish(t, e)
        BY <1>6, <1>8, <2>1, <3>1, <4>1
      <4>2. CASE e.ret # None /\ Goto(t, "put")
        <5>1. Backed(fs, i)
          BY <3>1, <4>2 DEF Backed
        <5> QED
          BY <1>7, <2>1, <4>2, <5>1 DEF i, h
      <4> QED
        BY <2>1, <4>1, <4>2
    <3> QED
      BY <1>1, <2>1, <3>1, <3>2, QuietKept
  <2>3. CASE ~(fs.inode[i].size > 0) /\ b # None
    <3>1. e = Return([fs EXCEPT !.blocks = @ \cup {b}, !.inode[i].block = b], b)
      BY <2>3 DEF Reserve, i
    <3>2. e.fs = [fs EXCEPT !.blocks = @ \cup {b}, !.inode[i].block = b] /\ e.ret = b
      BY <3>1 DEF Return
    <3> HIDE DEF e
    <3>3. /\ fs'.file = fs.file /\ fs'.opened = fs.opened /\ fs'.inode[i].block = b
          /\ \A k \in Inums \ {i} : fs'.inode[k] = fs.inode[k]
      <4> HIDE DEF b
      <4> QED
        BY <1>1, <2>1, <3>2 DEF Tables, Inodes
    <3>4. \A k \in Kept(first) : /\ fs'.inode[k].size > 0 => Backed(fs', k)
                                 /\ Backed(fs, k) => Backed(fs', k)
      BY <1>2, <2>3, <3>3 DEF KeptInv, Backed
    <3>5. \A g \in fs'.opened : fs'.file[g].inum \in Kept(first) /\ fs'.file[g].offset > 0
                              => Backed(fs', fs'.file[g].inum)
      BY <3>3, <3>4 DEF KeptInv
    <3>6. Ready(fs', thread'[t]) /\ thread'[t].ret # Abort
      <4>1. Goto(t, "put") /\ Backed(fs', i) /\ fs'.file[h].inum = i
        BY <2>1, <2>3, <3>2, <3>3 DEF Backed, i
      <4> QED
        BY <1>7, <2>1, <4>1
    <3> QED
      BY <1>1, <3>3, <3>4, <3>5, <3>6, KeptStep
  <2> QED
    BY <2>2, <2>3
<1>14. CASE WritePut(t)
  <2> DEFINE n == ToWrite(fs, h, r.call.text)
             end == off + n
             e == Put(fs, h, r.call.text)
  <2>1. Finish(t, e) /\ r.call.op = "write" /\ r.pc = "put"
    BY <1>1, <1>14 DEF WritePut, At
  <2>2. fs' = e.fs
    BY <2>1 DEF Finish
  <2>3. n \in Int /\ r.call.text \in Seq(Bytes)
    BY <1>11, <2>1
  <2>4. CASE n <= 0
    <3>1. e.fs = fs /\ e.ret \in {0, Undefined}
      <4> HIDE DEF n
      <4>1. n = 0 \/ n < 0
        BY <2>3, <2>4
      <4> QED
        BY <4>1 DEF Put, Return, n
    <3>2. Ready(fs', thread'[t]) /\ thread'[t].ret # Abort
      BY <1>6, <1>8, <2>1, <3>1
    <3> HIDE DEF e
    <3> QED
      BY <1>1, <2>2, <3>1, <3>2, QuietKept
  <2>5. CASE n > 0
    <3>1. /\ fs'.opened = fs.opened /\ e.ret = n
          /\ \A k \in Inums : fs'.inode[k].block = fs.inode[k].block
          /\ \A k \in Inums \ {i} : fs'.inode[k] = fs.inode[k]
          /\ \A g \in Handles : fs'.file[g].inum = fs.file[g].inum
          /\ \A g \in Handles \ {h} : fs'.file[g] = fs.file[g]
      <4>1. i = fs.file[h].inum
        OBVIOUS
      <4> HIDE DEF n, i, h
      <4> QED
        BY <1>9, <2>2, <2>3, <2>5, <4>1, PutMoves, SMTT(30) DEF n
    <3>2. i \in Kept(first) => Backed(fs, i)
      <4>1. r.call.text # <<>>
        <5>1. n <= Len(r.call.text)
          BY <1>1, <2>3, ToWriteType
        <5> HIDE DEF n
        <5> QED
          BY <2>3, <2>5, <5>1
      <4> QED
        BY <1>1, <2>1, <4>1 DEF Ready
    <3>3. e.ret # Abort
      BY <2>3, <2>5, <3>1 DEF Abort
    <3>4. Ready(fs', thread'[t]) /\ thread'[t].ret # Abort
      BY <1>6, <2>1, <3>3
    <3> HIDE DEF e, n, end, i
    <3>5. \A k \in Kept(first) : /\ fs'.inode[k].size > 0 => Backed(fs', k)
                                 /\ Backed(fs, k) => Backed(fs', k)
      BY <1>2, <3>1, <3>2 DEF KeptInv, Backed
    <3>6. fs.opened \subseteq Handles
      BY <1>1 DEF Tables
    <3>7. \A g \in fs'.opened : fs'.file[g].inum \in Kept(first) /\ fs'.file[g].offset > 0
                              => Backed(fs', fs'.file[g].inum)
      <4> SUFFICES ASSUME NEW g \in fs.opened, fs.file[g].inum \in Kept(first), fs'.file[g].offset > 0
                   PROVE  Backed(fs', fs.file[g].inum)
        BY <3>1, <3>6
      <4>1. CASE g = h
        BY <3>2, <3>5, <4>1 DEF i
      <4>2. CASE g # h
        BY <3>1, <3>5, <3>6, <4>2 DEF KeptInv
      <4> QED
        BY <4>1, <4>2
    <3> QED
      BY <1>1, <3>1, <3>4, <3>5, <3>6, <3>7, KeptStep
  <2> QED
    BY <2>3, <2>4, <2>5
<1>15. CASE ReadLock(t)
  <2> DEFINE n == ToRead(fs, h, r.call.len)
  <2>1. /\ fs' = fs /\ r.call.op = "read"
        /\ thread' = [thread EXCEPT ![t].pc = "copy", ![t].offset = n]
    BY <1>1, <1>15 DEF ReadLock, At
  <2>2. r.call.len \in Nat
    BY <1>1, <2>1, ThreadsAssumption DEF IsCall
  <2>3. n # 0 => Backed(fs, i)
    <3>1. CASE fs.inode[i].size - off < 0
      <4>1. off > 0
        BY <1>9, <3>1
      <4> QED
        BY <1>1, <1>3, <2>1, <4>1
    <3>2. CASE ~(fs.inode[i].size - off < 0)
      <4>1. n = Min({fs.inode[i].size - off, r.call.len})
        BY <3>2 DEF ToRead
      <4>2. n # 0 => fs.inode[i].size > 0
        <5> DEFINE left == fs.inode[i].size - off
        <5>1. left \in Nat /\ (left > 0 => fs.inode[i].size > 0)
          BY <1>9, <3>2
        <5>2. n = IF left <= r.call.len THEN left ELSE r.call.len
          <6>1. left \in Int /\ r.call.len \in Int
            BY <2>2, <5>1
          <6> HIDE DEF left
          <6> QED
            BY <4>1, <6>1, MinOfTwo DEF left
        <5> HIDE DEF left, n
        <5> QED
          BY <2>2, <5>1, <5>2
      <4> HIDE DEF n
      <4> QED
        BY <1>1, <1>3, <2>1, <4>2
    <3> QED
      BY <3>1, <3>2
  <2> HIDE DEF n
  <2>4. /\ thread'[t].pc = "copy" /\ thread'[t].offset = n /\ thread'[t].ret = r.ret
        /\ thread'[t].call = r.call
    BY <1>1, <2>1 DEF Registers
  <2>5. Ready(fs, thread'[t])
    BY <1>1, <2>1, <2>3, <2>4 DEF Ready
  <2> QED
    BY <1>1, <2>1, <2>4, <2>5, QuietKept
<1>16. CASE ReadCopy(t)
  <2> DEFINE e == Copy(fs, h, r.offset)
  <2>1. Finish(t, e) /\ r.call.op = "read" /\ r.pc = "copy"
    BY <1>1, <1>16 DEF ReadCopy, At
  <2>2. r.offset # 0 => Backed(fs, i)
    BY <1>1, <2>1 DEF Ready
  <2>3. e.ret # Abort /\ (r.offset = 0 => e.fs = fs)
    <3> DEFINE base == fs.inode[i].block * BlockSize
               nulAt(k) == k \in DOMAIN fs.data /\ fs.data[k] = Nul
               start == base + off + IF nulAt(base + off) THEN 1 ELSE 0
               nuls == {k \in 0 .. r.offset - 1 : nulAt(start + k)}
               m == IF nuls = {} THEN r.offset ELSE Min(nuls)
    <3>1. m \in Nat
      <4>1. nuls \subseteq Nat
        <5>1. 0 .. r.offset - 1 \subseteq Nat
          BY <1>1
        <5> HIDE DEF start, nulAt
        <5> QED
          BY <5>1
      <4>2. nuls # {} => Min(nuls) \in nuls
        BY <4>1, MinIsLeast
      <4> QED
        BY <1>1, <4>1, <4>2
    <3>2. \/ r.offset = 0 /\ e.ret = 0 /\ e.fs = fs
          \/ r.offset # 0 /\ e.ret \in {Undefined, m}
      BY <2>2 DEF Copy, Return, Backed
    <3> HIDE DEF m
    <3> QED
      BY <1>8, <3>1, <3>2 DEF Abort
  <2>4. fs' = e.fs /\ Ready(fs', thread'[t]) /\ thread'[t].ret # Abort
    BY <1>6, <2>1, <2>3
  <2>5. /\ fs'.inode = fs.inode /\ fs'.opened = fs.opened
        /\ \A g \in Handles : /\ fs'.file[g].inum = fs.file[g].inum
                              /\ g # h => fs'.file[g] = fs.file[g]
    BY <1>1, <2>4, CopyMoves
  <2> HIDE DEF e, i
  <2>6. \A k \in Kept(first) : /\ fs'.inode[k].size > 0 => Backed(fs', k)
                               /\ Backed(fs, k) => Backed(fs', k)
    BY <2>5 DEF KeptInv, Backed
  <2>7. fs.opened \subseteq Handles
    BY <1>1 DEF Tables
  <2>8. \A g \in fs'.opened : fs'.file[g].inum \in Kept(first) /\ fs'.file[g].offset > 0
                            => Backed(fs', fs'.file[g].inum)
    <3> SUFFICES ASSUME NEW g \in fs.opened, fs.file[g].inum \in Kept(first), fs'.file[g].offset > 0
                 PROVE  Backed(fs', fs.file[g].inum)
      BY <2>5, <2>7
    <3>1. CASE g = h /\ r.offset # 0
      BY <2>2, <2>6, <3>1 DEF i
    <3>2. CASE g # h \/ r.offset = 0
      <4>1. fs'.file[g] = fs.file[g]
        BY <2>3, <2>4, <2>5, <2>7, <3>2
      <4> QED
        BY <2>6, <4>1 DEF KeptInv
    <3> QED
      BY <3>1, <3>2
  <2> QED
    BY <1>1, <2>4, <2>5, <2>6, <2>7, <2>8, KeptStep
<1>17. CASE CloseFile(t)
  <2>1. Finish(t, Return([fs EXCEPT !.opened = @ \ {h}], 0))
    <3>1. Close(fs, h) = Return([fs EXCEPT !.opened = @ \ {h}], 0)
      BY <1>1 DEF Close
    <3>2. Close(fs, h).ret # None
      BY <3>1 DEF Return, None
    <3> QED
      BY <1>17, <3>1, <3>2 DEF CloseFile
  <2>2. fs' = [fs EXCEPT !.opened = @ \ {h}] /\ Ready(fs', thread'[t]) /\ thread'[t].ret # Abort
    BY <1>6, <1>8, <2>1 DEF Return
  <2>3. fs'.inode = fs.inode /\ fs'.file = fs.file /\ fs'.opened \subseteq fs.opened
    BY <1>1, <2>2 DEF Tables
  <2> QED
    BY <1>1, <2>2, <2>3, QuietKept
<1> QED
  BY <1>10, <1>12, <1>13, <1>14, <1>15, <1>16, <1>17

(* What the threads find when nothing has been removed: a file that has    *)
(* contents has a block, and so has one that a handle has moved into; a    *)
(* handle is of a file that is there.                                      *)
Whole(s) ==
  /\ \A i \in Inums : s.inode[i].size > 0 => Backed(s, i)
  /\ \A h \in s.opened : /\ s.file[h].inum \in s.inodes
                         /\ s.file[h].offset > 0 => Backed(s, s.file[h].inum)

(* Inodes may be made, given blocks and emptied. *)
LEMMA WholeFrame ==
  ASSUME NEW s, NEW u, Whole(s), u.opened \subseteq s.opened, u.file = s.file,
         s.inodes \subseteq u.inodes,
         \A i \in Inums : u.inode[i].size > 0 => Backed(u, i),
         \A i \in s.inodes : Backed(s, i) => Backed(u, i)
  PROVE  Whole(u)
BY DEF Whole

(* The calls change the fields of one inode at a time, and no handle. *)
LEMMA WholeInode ==
  ASSUME NEW s \in Tables, Whole(s), NEW u, u.opened \subseteq s.opened, u.file = s.file,
         s.inodes \subseteq u.inodes,
         NEW i, i \in s.inodes /\ Backed(s, i) => Backed(u, i),
         i \in Inums /\ u.inode[i].size > 0 => Backed(u, i),
         \A k \in Inums \ {i} : u.inode[k] = s.inode[k]
  PROVE  Whole(u)
<1>1. s.inodes \subseteq Inums
  BY DEF Tables
<1>2. \A k \in Inums : u.inode[k].size > 0 => Backed(u, k)
  BY DEF Whole, Backed
<1>3. \A k \in s.inodes : Backed(s, k) => Backed(u, k)
  BY <1>1 DEF Backed
<1> QED
  BY <1>2, <1>3, WholeFrame

(* A new handle. *)
LEMMA AddToOpenFileTableWhole ==
  ASSUME NEW s \in Tables, Whole(s), NEW i \in s.inodes, NEW offset, offset > 0 => Backed(s, i)
  PROVE  Whole(AddToOpenFileTable(s, i, offset).fs)
<1> DEFINE h == FirstFree(Handles, s.opened)
           u == [s EXCEPT !.opened = @ \cup {h}, !.file[h] = [inum |-> i, offset |-> offset]]
<1>1. h \in (Handles \ s.opened) \cup {None}
  BY FirstFreeType, Sizes
<1>2. CASE h = None
  BY <1>2 DEF AddToOpenFileTable, Return
<1>3. CASE h # None
  <2>1. AddToOpenFileTable(s, i, offset).fs = u
    BY <1>3 DEF AddToOpenFileTable, Return
  <2> HIDE DEF h
  <2>2. /\ u.opened = s.opened \cup {h} /\ u.inode = s.inode /\ u.inodes = s.inodes
        /\ u.file = [s.file EXCEPT ![h] = [inum |-> i, offset |-> offset]] /\ DOMAIN s.file = Handles
    BY DEF Tables
  <2> HIDE DEF u
  <2>3. /\ u.file[h].inum = i /\ u.file[h].offset = offset
        /\ \A g \in s.opened : u.file[g] = s.file[g]
    BY <1>1, <1>3, <2>2
  <2>4. Whole(u)
    BY <2>2, <2>3 DEF Whole, Backed
  <2> QED
    BY <2>1, <2>4
<1> QED
  BY <1>2, <1>3

(* tfs_open. *)
LEMMA OpenWhole ==
  ASSUME NEW s \in Tables, NamesOK(s), Whole(s), NEW name \in Names, NEW mode
  PROVE  Whole(Open(s, name, mode).fs)
<1> DEFINE entry == Lookup(s, name)
           i == GetPath(s, entry)
           new == CreateFile(s)
           ino == s.inode[i]
           cut == IF "trunc" \in mode /\ ino.size > 0
                    THEN [s EXCEPT !.blocks = @ \ {ino.block}, !.inode[i].size = 0]
                    ELSE s
           added == AddDirEntry(new.fs, name, new.ret)
           offset == IF "append" \in mode THEN cut.inode[i].size ELSE 0
<1>1. s.inodes \subseteq Inums
  BY DEF Tables
<1>2. i \in s.inodes \cup {None}
  <2>1. \A n : Lookup(s, n) \in s.inodes \cup {None}
    BY LookupNames
  <2> HIDE DEF i
  <2> QED
    BY <2>1, GetPathType DEF i
<1>3. ASSUME new.ret # None
      PROVE  /\ new.fs \in Tables /\ Whole(new.fs) /\ new.ret \in new.fs.inodes
             /\ new.ret \in Inums \ s.inodes /\ new.fs.inodes = s.inodes \cup {new.ret}
             /\ new.fs.opened = s.opened /\ new.fs.file = s.file
             /\ \A k \in Inums \ {new.ret} : new.fs.inode[k] = s.inode[k]
  <2> DEFINE r == new.ret
             u == [s EXCEPT !.inodes = @ \cup {r}, !.inode[r] = NewFile]
  <2>1. new.fs = u /\ r \in Inums \ s.inodes
    BY <1>3, CreateFileNames
  <2>2. new.fs \in Tables
    BY CreateFileType
  <2> HIDE DEF r
  <2>3. /\ u.inodes = s.inodes \cup {r} /\ u.opened = s.opened /\ u.file = s.file
        /\ u.inode[r].size = 0 /\ \A k \in Inums \ {r} : u.inode[k] = s.inode[k]
    BY <2>1 DEF Tables, NewFile
  <2> HIDE DEF u
  <2>4. Whole(u)
    BY <2>1, <2>3, WholeInode
  <2> QED
    BY <2>1, <2>2, <2>3, <2>4 DEF r
<1> HIDE DEF entry, i, new
<1>4. CASE entry = None
  <2>1. CASE "creat" \notin mode \/ new.ret = None
    BY <1>4, <2>1 DEF Open, Return, entry, new
  <2>2. CASE ~("creat" \notin mode \/ new.ret = None) /\ Addable(s, name)
    <3>1. Open(s, name, mode) = AddToOpenFileTable(added, new.ret, 0)
      BY <1>4, <2>2 DEF Open, entry, new
    <3>2. added \in Tables
      BY <1>3, <2>2, AddDirEntryType
    <3>3. /\ added.inodes = new.fs.inodes /\ added.inode = new.fs.inode
          /\ added.opened = new.fs.opened /\ added.file = new.fs.file
      BY DEF AddDirEntry
    <3> HIDE DEF added
    <3>4. Whole(added)
      BY <1>3, <2>2, <3>3 DEF Whole, Backed
    <3> QED
      BY <1>3, <2>2, <3>1, <3>2, <3>3, <3>4, AddToOpenFileTableWhole
  <2>3. CASE ~("creat" \notin mode \/ new.ret = None) /\ ~Addable(s, name)
    <3> DEFINE u == InodeDelete(new.fs, new.ret)
    <3>1. Open(s, name, mode) = Return(u, None)
      BY <1>4, <2>3 DEF Open, entry, new
    <3>2. /\ u.inodes = new.fs.inodes \ {new.ret} /\ u.inode = new.fs.inode
          /\ u.opened = new.fs.opened /\ u.file = new.fs.file
      BY <1>3, <2>3 DEF InodeDelete, Tables
    <3> HIDE DEF u
    <3>3. /\ \A h \in u.opened : u.file[h].inum \in u.inodes
          /\ \A k : Backed(u, k) <=> Backed(new.fs, k)
      BY <1>3, <2>3, <3>2 DEF Whole, Backed
    <3>4. Whole(u)
      BY <1>3, <2>3, <3>2, <3>3 DEF Whole
    <3> QED
      BY <3>1, <3>4 DEF Return
  <2> QED
    BY <2>1, <2>2, <2>3
<1>5. CASE entry # None /\ (i = None \/ ino.type = "link")
  BY <1>5 DEF Open, Return, entry, i
<1>6. CASE entry # None /\ i # None /\ ino.type # "link"
  <2>1. Open(s, name, mode) = AddToOpenFileTable(cut, i, offset)
    BY <1>6 DEF Open, entry, i
  <2>2. i \in s.inodes /\ i \in Inums
    BY <1>1, <1>2, <1>6
  <2>3. cut \in Tables /\ cut.inodes = s.inodes /\ Whole(cut)
    <3>1. CASE "trunc" \in mode /\ ino.size > 0
      <4> DEFINE t == [s EXCEPT !.blocks = @ \ {ino.block}, !.inode[i].size = 0]
      <4>1. /\ t.inodes = s.inodes /\ t.opened = s.opened /\ t.file = s.file
            /\ t.inode[i].size = 0 /\ t.inode[i].block = s.inode[i].block
            /\ \A k \in Inums \ {i} : t.inode[k] = s.inode[k]
        BY <2>2 DEF Tables, Inodes
      <4>2. t \in Tables
        <5>1. s.inode[i] \in Inodes
          BY <2>2 DEF Tables
        <5>2. [s.inode[i] EXCEPT !.size = 0] \in Inodes
          BY <5>1, Sizes DEF Inodes
        <5> QED
          BY <2>2, <5>2 DEF Tables
      <4> HIDE DEF t
      <4>3. Whole(t)
        BY <4>1, WholeInode DEF Backed
      <4> QED
        BY <3>1, <4>1, <4>2, <4>3 DEF t
    <3> QED
      BY <3>1
  <2> HIDE DEF cut
  <2>4. offset > 0 => Backed(cut, i)
    BY <2>2, <2>3 DEF Whole
  <2> HIDE DEF offset
  <2> QED
    BY <2>1, <2>2, <2>3, <2>4, AddToOpenFileTableWhole
<1> QED
  BY <1>4, <1>5, <1>6

(* tfs_sym_link and tfs_link. *)
LEMMA LinksWhole ==
  ASSUME NEW s \in Tables, NamesOK(s), Whole(s), NEW target \in Names, NEW name \in Names
  PROVE  Whole(SymLink(s, target, name).fs) /\ Whole(Link(s, target, name).fs)
<1>1. ASSUME NEW u, Whole(u), NEW t, t.opened = u.opened, t.file = u.file,
             t.inodes = u.inodes, t.inode = u.inode
      PROVE  \A k : Whole(AddDirEntry(t, name, k))
  <2> TAKE k
  <2> DEFINE a == AddDirEntry(t, name, k)
  <2>1. a.opened = t.opened /\ a.file = t.file /\ a.inodes = t.inodes /\ a.inode = t.inode
    BY DEF AddDirEntry
  <2> HIDE DEF a
  <2>2. Whole(a)
    BY <1>1, <2>1 DEF Whole, Backed
  <2> QED
    BY <2>2 DEF a
<1>2. Whole(CreateLink(s).fs)
  <2> DEFINE i == FirstFree(Inums, s.inodes)
             b == FirstFree(Blocks, s.blocks)
             s1 == [s EXCEPT !.inodes = @ \cup {i}]
  <2>1. i \in (Inums \ s.inodes) \cup {None} /\ b \in Blocks \cup {None}
    BY FirstFreeType, Sizes
  <2>2. CASE i = None
    BY <2>2 DEF CreateLink, Return
  <2>3. CASE i \in Inums \ s.inodes
    <3>1. CreateLink(s) = FillLink(s1, i) /\ s1.blocks = s.blocks
      BY <2>3, Sizes DEF CreateLink, Tables
    <3>2. CASE b = None
      <4> DEFINE u == [s1 EXCEPT !.inodes = @ \ {i}, !.inode[i].type = "link",
                                 !.inode[i].size = 0, !.inode[i].block = None]
      <4>1. CreateLink(s) = Return(u, None)
        BY <3>1, <3>2 DEF FillLink
      <4> HIDE DEF i
      <4>2. /\ u.inodes = s.inodes /\ u.opened = s.opened /\ u.file = s.file
            /\ u.inode[i].size = 0 /\ \A k \in Inums \ {i} : u.inode[k] = s.inode[k]
        BY <2>3 DEF Tables, Inodes
      <4> HIDE DEF u
      <4>3. Whole(u)
        BY <2>3, <4>2, WholeInode
      <4> QED
        BY <4>1, <4>3 DEF Return
    <3>3. CASE b \in Blocks
      <4> DEFINE ino == [type |-> "link", size |-> MaxFileName, block |-> b, count |-> 1]
                 u == [s1 EXCEPT !.blocks = @ \cup {b}, !.inode[i] = ino]
      <4>1. CreateLink(s) = Return(u, i)
        BY <3>1, <3>3, Sizes DEF FillLink
      <4>2. b # None
        BY <3>3, Sizes
      <4> HIDE DEF i, b
      <4>3. /\ u.inodes = s.inodes \cup {i} /\ u.opened = s.opened /\ u.file = s.file
            /\ u.inode[i].block = b /\ \A k \in Inums \ {i} : u.inode[k] = s.inode[k]
        BY <2>3 DEF Tables
      <4> HIDE DEF u
      <4>4. Backed(u, i)
        BY <4>2, <4>3 DEF Backed
      <4>5. Whole(u)
        BY <4>3, <4>4, WholeInode
      <4> QED
        BY <4>1, <4>5 DEF Return
    <3> QED
      BY <2>1, <3>2, <3>3
  <2> QED
    BY <2>1, <2>2, <2>3
<1>3. Whole(SymLink(s, target, name).fs)
  <2> DEFINE new == CreateLink(s)
             t == StoreTarget(new.fs, new.ret, target)
  <2>1. t.opened = new.fs.opened /\ t.file = new.fs.file /\ t.inodes = new.fs.inodes
        /\ t.inode = new.fs.inode
    BY DEF StoreTarget, Store
  <2>2. Whole(AddDirEntry(t, name, new.ret))
    <3> HIDE DEF new, t
    <3> QED
      BY <1>1, <1>2, <2>1 DEF new
  <2> HIDE DEF t
  <2>3. SymLink(s, target, name).fs \in {s, new.fs, AddDirEntry(t, name, new.ret)}
    BY DEF SymLink, Return, t
  <2> QED
    BY <1>2, <2>2, <2>3
<1>4. Whole(Link(s, target, name).fs)
  <2> DEFINE i == Lookup(s, target)
             t == [s EXCEPT !.inode[i].count = @ + 1]
  <2>1. CASE i = None \/ s.inode[i].type = "link"
    BY <2>1 DEF Link, Return
  <2>2. CASE ~(i = None \/ s.inode[i].type = "link")
    <3>1. Link(s, target, name).fs = AddDirEntry(t, name, i)
      BY <2>2 DEF Link, Return
    <3>2. i \in Inums
      BY <2>2, LookupType
    <3> HIDE DEF i
    <3>3. /\ t.inodes = s.inodes /\ t.opened = s.opened /\ t.file = s.file
          /\ t.inode[i].size = s.inode[i].size /\ t.inode[i].block = s.inode[i].block
          /\ \A k \in Inums \ {i} : t.inode[k] = s.inode[k]
      BY <3>2 DEF Tables, Inodes
    <3> HIDE DEF t
    <3>4. Whole(t)
      BY <3>3, WholeInode DEF Whole, Backed
    <3> QED
      BY <1>1, <3>1, <3>4
  <2> QED
    BY <2>1, <2>2
<1> QED
  BY <1>3, <1>4

(* tfs_close, tfs_write and tfs_read. *)
LEMMA HandleCallsWhole ==
  ASSUME NEW s \in Tables, Whole(s), NEW h
  PROVE  /\ Whole(Close(s, h).fs)
         /\ \A text \in Seq(Bytes) : Whole(Write(s, h, text).fs)
         /\ \A len \in Nat : Whole(Read(s, h, len).fs)
<1>1. Whole(Close(s, h).fs)
  <2> DEFINE u == Close(s, h).fs
  <2>1. u.opened \subseteq s.opened /\ u.file = s.file /\ u.inodes = s.inodes /\ u.inode = s.inode
    BY DEF Close, Return
  <2> HIDE DEF u
  <2>2. Whole(u)
    BY <2>1 DEF Whole, Backed
  <2> QED
    BY <2>2 DEF u
<1>2. ASSUME h \in s.opened
      PROVE  /\ h \in Handles /\ s.opened \subseteq Handles
             /\ s.file[h].inum \in s.inodes /\ s.file[h].inum \in Inums
  BY <1>2 DEF Whole, Tables
<1>3. ASSUME NEW text \in Seq(Bytes) PROVE Whole(Write(s, h, text).fs)
  <2> DEFINE i == s.file[h].inum
             b == FirstFree(Blocks, s.blocks)
             reserved == Reserve(s, h)
             t == reserved.fs
             u == Put(t, h, text).fs
             n == ToWrite(t, h, text)
  <2>1. \/ Write(s, h, text).fs = s
        \/ h \in s.opened /\ reserved.ret # None /\ Write(s, h, text).fs = u
    BY DEF Write, Return
  <2>2. ASSUME h \in s.opened, reserved.ret # None
        PROVE  /\ t \in Tables /\ Whole(t) /\ Backed(t, i)
               /\ t.file = s.file /\ t.opened = s.opened /\ t.inodes = s.inodes
    <3>1. t \in Tables
      BY <1>2, <2>2, ReserveType
    <3>2. CASE s.inode[i].size > 0
      <4>1. reserved = Return(s, s.inode[i].block)
        BY <3>2 DEF Reserve
      <4> QED
        BY <2>2, <3>1, <4>1 DEF Return, Backed
    <3>3. CASE ~(s.inode[i].size > 0)
      <4> DEFINE v == [s EXCEPT !.blocks = @ \cup {b}, !.inode[i].block = b]
      <4>1. reserved = Return(v, b) /\ b # None
        BY <2>2, <3>3 DEF Reserve, Return
      <4>2. i \in Inums
        BY <1>2, <2>2
      <4> HIDE DEF i, b
      <4>3. /\ v.inodes = s.inodes /\ v.opened = s.opened /\ v.file = s.file
            /\ v.inode[i].block = b /\ \A k \in Inums \ {i} : v.inode[k] = s.inode[k]
        BY <4>2 DEF Tables, Inodes
      <4> HIDE DEF v
      <4>4. Backed(v, i)
        BY <4>1, <4>3 DEF Backed
      <4>5. Whole(v)
        BY <4>3, <4>4, WholeInode
      <4> QED
        BY <3>1, <4>1, <4>3, <4>4, <4>5 DEF Return, i
    <3> QED
      BY <3>2, <3>3
  <2>3. ASSUME h \in s.opened, reserved.ret # None PROVE Whole(u)
    <3> HIDE DEF t
    <3>1. t \in Tables /\ h \in Handles /\ n \in Int /\ t.file[h].inum = i
      BY <1>2, <2>2, <2>3, ToWriteType
    <3>2. CASE n <= 0
      BY <2>2, <2>3, <3>1, <3>2, PutMoves
    <3>3. CASE n > 0
      <4>1. /\ u.opened = s.opened /\ u.inodes = s.inodes
            /\ \A k \in Inums : u.inode[k].block = t.inode[k].block
            /\ \A k \in Inums \ {i} : u.inode[k] = t.inode[k]
            /\ \A g \in Handles : u.file[g].inum = s.file[g].inum
            /\ \A g \in Handles \ {h} : u.file[g] = s.file[g]
        BY <2>2, <2>3, <3>1, <3>3, PutMoves
      <4> HIDE DEF u, i
      <4>2. Backed(u, i) /\ \A k \in Inums : Backed(u, k) <=> Backed(t, k)
        BY <1>2, <2>2, <2>3, <4>1 DEF Backed, i
      <4>3. \A k \in Inums : u.inode[k].size > 0 => Backed(u, k)
        BY <2>2, <2>3, <4>1, <4>2 DEF Whole
      <4>4. \A g \in s.opened : /\ s.file[g].inum \in s.inodes /\ s.file[g].inum \in Inums
                                /\ s.file[g].offset > 0 => Backed(t, s.file[g].inum)
        BY <2>2, <2>3 DEF Whole, Tables
      <4>5. \A g \in s.opened : u.file[g].offset > 0 => Backed(u, u.file[g].inum)
        <5> TAKE g \in s.opened
        <5>1. g \in Handles
          BY <1>2, <2>3
        <5>2. CASE g = h
          BY <4>1, <4>2, <5>1, <5>2 DEF i
        <5>3. CASE g # h
          BY <4>1, <4>2, <4>4, <5>1, <5>3
        <5> QED
          BY <5>2, <5>3
      <4> QED
        BY <1>2, <2>3, <4>1, <4>3, <4>4, <4>5 DEF Whole
    <3> QED
      BY <3>1, <3>2, <3>3
  <2> HIDE DEF u, reserved
  <2> QED
    BY <2>1, <2>3
<1>4. ASSUME NEW len \in Nat PROVE Whole(Read(s, h, len).fs)
  <2> DEFINE toRead == ToRead(s, h, len)
             u == Copy(s, h, toRead).fs
  <2>1. \/ Read(s, h, len).fs = s
        \/ h \in s.opened /\ Read(s, h, len).fs = u
    BY DEF Read, Return
  <2>2. ASSUME h \in s.opened PROVE Whole(u)
    <3>1. u = s \/ Backed(s, s.file[h].inum)
      BY DEF Copy, Return, Backed
    <3>2. /\ u.inodes = s.inodes /\ u.inode = s.inode /\ u.opened = s.opened
          /\ \A g \in Handles : /\ u.file[g].inum = s.file[g].inum
                                /\ g # h => u.file[g] = s.file[g]
      BY <1>2, <2>2, CopyMoves
    <3> HIDE DEF u
    <3>3. CASE u # s
      BY <1>2, <2>2, <3>1, <3>2, <3>3 DEF Whole, Backed
    <3> QED
      BY <3>3
  <2> HIDE DEF u
  <2> QED
    BY <2>1, <2>2
<1> QED
  BY <1>1, <1>3, <1>4

(* The calls made before the threads start remove no name. *)
ScriptsRemoveNothing == \A script \in Scripts : \A k \in DOMAIN script : script[k].op # "unlink"

(* So is what a script without removals leaves. *)
LEMMA InitWhole == ASSUME ScriptsRemoveNothing, Init PROVE Whole(fs)
<1> DEFINE Good == {s \in Tables : NamesOK(s) /\ Whole(s)}
<1>1. PICK script \in Scripts :
        fs = FoldLeft(LAMBDA s, c : Effect(s, c).fs, InitialState, script)
  BY DEF Init
<1>2. DOMAIN script = 1 .. Len(script) /\ Len(script) \in Nat
      /\ \A k \in 1 .. Len(script) : IsCall(script[k]) /\ script[k].op # "unlink"
  BY ThreadsAssumption DEF ScriptsRemoveNothing
<1>3. ASSUME NEW s \in Good, NEW c, IsCall(c), c.op # "unlink" PROVE Effect(s, c).fs \in Good
  <2>1. Whole(Effect(s, c).fs)
    <3>1. CASE c.op = "open"
      BY <1>3, <3>1, OpenWhole DEF IsCall, Effect
    <3>2. CASE c.op \in {"link", "sym_link"}
      BY <1>3, <3>2, LinksWhole DEF IsCall, Effect
    <3>3. CASE c.op \in {"close", "write", "read"}
      BY <1>3, <3>3, HandleCallsWhole DEF IsCall, Effect
    <3> QED
      BY <1>3, <3>1, <3>2, <3>3 DEF IsCall
  <2>2. NamesOK(Effect(s, c).fs)
    <3>1. CASE c.op = "open"
      BY <1>3, <3>1, OpenNames DEF IsCall, Effect
    <3>2. CASE c.op = "link"
      BY <1>3, <3>2, LinkNames DEF IsCall, Effect
    <3>3. CASE c.op = "sym_link"
      BY <1>3, <3>3, SymLinkNames DEF IsCall, Effect
    <3>4. CASE c.op \in {"close", "write", "read"}
      BY <1>3, <3>4, HandleCallsNames DEF IsCall, Effect
    <3> QED
      BY <1>3, <3>1, <3>2, <3>3, <3>4 DEF IsCall
  <2> QED
    BY <1>3, <2>1, <2>2, EffectType
<1>4. InitialState \in Good
  <2>1. \A i \in Inums : InitialState.inode[i].size > 0 => InitialState.inode[i].block # None
    <3>1. 0 # None
      BY DEF None
    <3> QED
      BY <3>1 DEF InitialState
  <2>2. InitialState.opened = {}
    BY DEF InitialState
  <2>3. Whole(InitialState)
    BY <2>1, <2>2 DEF Whole, Backed
  <2> QED
    BY <2>3, InitialStateType, InitialNames
<1> HIDE DEF Good
<1>5. fs \in Good
  BY <1>1, <1>2, <1>3, <1>4, ScriptStays
<1> QED
  BY <1>5 DEF Good

(* What reads need is there at the start. *)
LEMMA InitKept == ASSUME ScriptsRemoveNothing, Init, ReadsKept PROVE KeptInv
<1>1. Whole(fs) /\ fs \in Tables /\ first = fs
  BY InitWhole, InitLockInv DEF Init, LockInv
<1>2. \A h \in fs.opened : fs.file[h].inum \in Inums
  BY <1>1 DEF Tables
<1>3. Kept(first) \subseteq Inums
  BY DEF Kept
<1>4. \A t \in Threads : thread[t] = Idle
  BY DEF Init
<1>5. Ready(fs, Idle) /\ Idle.ret # Abort
  BY DEF Ready, Idle, NoCall, Abort
<1> QED
  BY <1>1, <1>2, <1>3, <1>4, <1>5 DEF Whole, KeptInv, NoAbort

(* A call begins with nothing to read or write yet. *)
LEMMA BeginKept ==
  ASSUME LockInv, KeptInv, NEW t \in Threads, NEW c \in Calls, Find(t, c) \/ Entry(t, c)
  PROVE  KeptInv'
<1> DEFINE r == thread'[t]
<1>1. PICK step, ino : Begin(t, c, step, ino) /\ step \in {"lock", "alloc", "file", "done"}
  BY DEF Find, Entry
<1>2. /\ thread \in [Threads -> Registers] /\ thread[t].pc = "idle" /\ Ready(fs, thread[t])
      /\ UNCHANGED <<fs, first>>
  BY <1>1 DEF LockInv, KeptInv, Begin
<1>3. /\ r.pc = step /\ r.ret \in {None, 0} /\ r.offset = thread[t].offset
      /\ \A u \in Threads \ {t} : thread'[u] = thread[u]
  BY <1>1, <1>2 DEF Begin, Registers
<1>4. r.offset = 0
  BY <1>2, <1>3 DEF Ready
<1>5. Ready(fs, r) /\ r.ret # Abort
  <2>1. 0 # Abort /\ None # Abort
    BY DEF Abort, None
  <2> QED
    BY <1>1, <1>3, <1>4, <2>1 DEF Ready
<1>6. \A u \in Threads : Ready(fs, thread'[u]) /\ thread'[u].ret # Abort
  BY <1>3, <1>5 DEF KeptInv, NoAbort
<1>7. (\A u \in Threads : Ready(fs, thread[u]))' /\ NoAbort'
  BY <1>2, <1>6 DEF Ready, Kept, Backed, NoAbort
<1> QED
  BY <1>2, <1>7 DEF KeptInv, ReadsKept, Kept, Backed

(* What reads need, step by step. *)
LEMMA NextKept ==
  ASSUME ReadsStayOpen, LockInv, HandlesStay, NameInv, KeptInv, [Next]_vars
  PROVE  KeptInv'
<1>1. LockInv'
  BY NextLockInv
<1>2. ASSUME NEW t \in Threads, Step(t) PROVE KeptInv'
  <2>1. Call(t).op = "unlink" => thread'[t].ret # Abort
    BY <1>1, <1>2, StepNameInv
  <2> QED
    BY <1>2, <2>1, OpenKept, CreatKept, NamesKept, DataKept DEF Step
<1>3. ASSUME NEW t \in Threads, NEW c \in Calls, Find(t, c) \/ Entry(t, c) PROVE KeptInv'
  BY <1>3, BeginKept
<1>4. CASE UNCHANGED vars
  BY <1>4 DEF vars, KeptInv, ReadsKept, Kept, Backed, Ready, NoAbort
<1> QED
  BY <1>2, <1>3, <1>4 DEF Next, Terminated

(* If callers close a handle and remove a name only when no other call     *)
(* uses it, and read through handles that stay open, of files that keep a  *)
(* name, then no assertion of the file system fails: no inode is freed     *)
(* twice, no handle is closed twice, and tfs_read finds the block of its   *)
(* file, whatever opens, truncations, writes, links and removals go on     *)
(* meanwhile.  A file that loses its last name while it is open loses its  *)
(* block too: hence the demand on the files that are read.                 *)
THEOREM NothingAborts ==
  ClosesAlone /\ UnlinksAlone /\ ReadsStayOpen /\ ScriptsRemoveNothing
    => (Spec /\ ReadsKept => []NoAbort)
<1> SUFFICES ASSUME ClosesAlone, UnlinksAlone, ReadsStayOpen, ScriptsRemoveNothing
             PROVE  Spec /\ ReadsKept => []NoAbort
  OBVIOUS
<1>1. Init /\ ReadsKept => KeptInv
  BY InitKept
<1>2. LockInv /\ HandlesStay /\ NameInv /\ KeptInv /\ [Next]_vars => KeptInv'
  BY NextKept
<1>3. KeptInv => NoAbort
  BY DEF KeptInv
<1>4. Spec => []HandlesStay
  BY HandlesStayOpen
<1>5. Spec => [](NameInv /\ Removed)
  BY NamesStand
<1> QED
  BY <1>1, <1>2, <1>3, <1>4, <1>5, Locked, PTL DEF Spec
=============================================================================
