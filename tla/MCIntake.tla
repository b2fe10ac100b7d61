------------------------------ MODULE MCIntake ------------------------------
(* Instances of Intake for TLC. *)
EXTENDS Intake

CONSTANTS c1, c2, c3,       \* clients
          p1, p2, p3,       \* their FIFOs
          a, b, key, new

Ask(code, pipe_name) ==
  [code |-> code, pipe_name |-> pipe_name, box_name |-> a, box_password |-> key]
AskList(pipe_name) == [code |-> 7, pipe_name |-> pipe_name]
AskLock(pipe_name) == [request_lock |-> Ask(13, pipe_name), new_password |-> new]

(* With three clients no read meets the end of the file, by MaxTasks. *)
SomeMixes == {(c1 :> Ask(5, p1) @@ c2 :> Ask(1, p2) @@ c3 :> Ask(2, p3)),
              (c1 :> Ask(1, p1) @@ c2 :> AskLock(p2) @@ c3 :> NoRequest),
              (c1 :> Ask(2, p1) @@ c2 :> AskList(p2) @@ c3 :> NoRequest),
              (c1 :> Ask(3, p1) @@ c2 :> Ask(11, p2) @@ c3 :> NoRequest)}
SomeTables == {<<>>, <<a, b>>}
=============================================================================
