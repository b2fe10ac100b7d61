---------------------------- MODULE MCTfsThreads ----------------------------
(* Instances of TfsThreads for TLC. *)
EXTENDS TfsThreads

CONSTANTS kept, other, fresh, long,   \* paths
          x, y          \* bytes

OpenCall(path, mode) == [op |-> "open", path |-> path, mode |-> mode]
UnlinkCall(path) == [op |-> "unlink", path |-> path]
LinkCall(path, name) == [op |-> "link", path |-> path, name |-> name]
SymLinkCall(path, name) == [op |-> "sym_link", path |-> path, name |-> name]
CloseCall(h) == [op |-> "close", h |-> h]
WriteCall(h, s) == [op |-> "write", h |-> h, text |-> s]
ReadCall(h) == [op |-> "read", h |-> h, len |-> BlockSize]

(* kept is a file that stays, other a link to it or a file of its own,     *)
(* fresh is new, and long too long for the directory.                      *)
SomeCalls ==
  {OpenCall(kept, {"append"}), OpenCall(kept, {"trunc"}), OpenCall(other, {"append"}),
   OpenCall(fresh, {"creat"}), OpenCall(long, {"creat", "trunc"}),
   UnlinkCall(other), UnlinkCall(fresh),
   LinkCall(kept, fresh), LinkCall(other, fresh),
   SymLinkCall(kept, fresh), SymLinkCall(other, fresh),
   CloseCall(0), WriteCall(0, <<y>>), WriteCall(1, <<y, y>>), ReadCall(1)}

(* Left open: handle 0 at the end of kept, handle 1 at its beginning. *)
Empty == <<OpenCall(kept, {"creat"}), OpenCall(kept, {})>>
Filled == Append(Empty, WriteCall(0, <<y>>))
SomeScripts == {Filled \o <<SymLinkCall(kept, other)>>,
                Filled \o <<LinkCall(kept, other)>>,
                Empty \o <<OpenCall(other, {"creat"}), WriteCall(2, <<y>>), CloseCall(2)>>}

Symmetry == Permutations(Threads)

(* Callers keep apart: the removal of a name from every other call on that *)
(* name, calls that make the same name, the closing of a handle from every *)
(* other use of it, and two reads through one handle.                      *)
Makes(f) == IF f.op \in {"link", "sym_link"} THEN {f.name}
            ELSE IF f.op = "open" /\ "creat" \in f.mode THEN {f.path} ELSE {}
Uses(f) == Makes(f) \cup (IF f.op \in {"open", "unlink", "link", "sym_link"} THEN {f.path} ELSE {})
HandleOf(f) == IF f.op \in {"close", "write", "read"} THEN {f.h} ELSE {}

Conflict(f, g) ==
  \/ "unlink" \in {f.op, g.op} /\ Uses(f) \cap Uses(g) # {}
  \/ Makes(f) \cap Makes(g) # {}
  \/ HandleOf(f) \cap HandleOf(g) # {} /\ ("close" \in {f.op, g.op} \/ (f.op = "read" /\ g.op = "read"))
=============================================================================
