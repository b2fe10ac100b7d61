----------------------------- MODULE FileStore -----------------------------
(***************************************************************************)
(* What the API of TecnicoFS promises about contents (fs/operations.h,     *)
(* lines 44-139): files are separate byte sequences; a handle writes and   *)
(* reads at its own offset and moves it by what it wrote or read.          *)
(***************************************************************************)
EXTENDS Naturals, Sequences

CONSTANTS Files, Descriptors, Bytes, MaxSize

VARIABLES store,    \* the contents of each existing file
          cursor,   \* the file and offset of each open handle
          got       \* the bytes the last call copied to its caller

vars == <<store, cursor, got>>

Contents == UNION {[1 .. n -> Bytes] : n \in 0 .. MaxSize}

Init == /\ store = [f \in {} |-> <<>>]
        /\ cursor = [h \in {} |-> <<>>]
        /\ got = <<>>

With(g, x, y) == [z \in DOMAIN g \cup {x} |-> IF z = x THEN y ELSE g[z]]
Without(g, x) == [z \in DOMAIN g \ {x} |-> g[z]]

(* A handle is handed out at the beginning of the file or at its end. *)
Grab(f) == \E h \in Descriptors \ DOMAIN cursor, o \in {0, Len(store'[f])} :
             cursor' = With(cursor, h, [file |-> f, offset |-> o])

(* Opening, which may create or truncate, and copying a file in.  The      *)
(* contents change even when no handle is left for the caller.             *)
Reset(f, s) == /\ store' = With(store, f, s)
               /\ Grab(f) \/ UNCHANGED cursor
               /\ got' = <<>>

Open(f) == /\ f \in DOMAIN store
           /\ UNCHANGED store
           /\ Grab(f)
           /\ got' = <<>>

Close(h) == /\ h \in DOMAIN cursor
            /\ cursor' = Without(cursor, h)
            /\ got' = <<>>
            /\ UNCHANGED store

Write(h, s) ==
  LET f == cursor[h].file
      o == cursor[h].offset
      rest == SubSeq(store[f], o + Len(s) + 1, Len(store[f]))
  IN /\ o <= Len(store[f])
     /\ store' = [store EXCEPT ![f] = SubSeq(@, 1, o) \o s \o rest]
     /\ cursor' = [cursor EXCEPT ![h].offset = o + Len(s)]
     /\ got' = <<>>

(* At least one byte if the file has more and the caller room for it. *)
Read(h, n) ==
  LET f == cursor[h].file
      o == cursor[h].offset
  IN /\ o + n <= Len(store[f])
     /\ got' = SubSeq(store[f], o + 1, o + n)
     /\ cursor' = [cursor EXCEPT ![h].offset = o + n]
     /\ UNCHANGED store

(* A file goes away with its last link, while no handle is on it. *)
Delete(f) == /\ f \in DOMAIN store
             /\ \A h \in DOMAIN cursor : cursor[h].file # f
             /\ store' = Without(store, f)
             /\ got' = <<>>
             /\ UNCHANGED cursor

(* A call that fails, or that moves nothing. *)
Nothing == got' = <<>> /\ UNCHANGED <<store, cursor>>

Next == \/ \E f \in Files, s \in Contents : Reset(f, s)
        \/ \E f \in Files : Open(f) \/ Delete(f)
        \/ \E h \in DOMAIN cursor : \/ Close(h)
                                    \/ \E s \in Contents : Write(h, s)
                                    \/ \E n \in 1 .. MaxSize : Read(h, n)
        \/ Nothing

Spec == Init /\ [][Next]_vars
=============================================================================
