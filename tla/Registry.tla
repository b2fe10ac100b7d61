------------------------------ MODULE Registry ------------------------------
(***************************************************************************)
(* What the broker's handlers make of server_boxes: named boxes, each with *)
(* a password and at most one publisher.  A box changes only at a request  *)
(* that names it and gives its password.                                   *)
(***************************************************************************)
CONSTANTS Workers, Passwords

VARIABLES boxes,     \* the password of each existing box
          writing,   \* the box each worker publishes to, if it does
          asked      \* input: the box and the password of each worker's request

vars == <<boxes, writing>>

Init == /\ boxes = [n \in {} |-> {}]
        /\ writing = [w \in {} |-> {}]

With(g, x, y) == [z \in DOMAIN g \cup {x} |-> IF z = x THEN y ELSE g[z]]
Without(g, x) == [z \in DOMAIN g \ {x} |-> g[z]]

Busy(n) == \E w \in DOMAIN writing : writing[w] = n

Knows(w) == LET n == asked[w].name
            IN n \in DOMAIN boxes /\ boxes[n] = asked[w].password

Create(w) == LET n == asked[w].name
             IN /\ n \notin DOMAIN boxes
                /\ boxes' = With(boxes, n, asked[w].password)
                /\ UNCHANGED writing

Remove(w) == /\ Knows(w) /\ ~Busy(asked[w].name)
             /\ boxes' = Without(boxes, asked[w].name)
             /\ UNCHANGED writing

SetPassword(w, new) == /\ Knows(w)
                       /\ boxes' = [boxes EXCEPT ![asked[w].name] = new]
                       /\ UNCHANGED writing

StartWriting(w) == /\ Knows(w) /\ ~Busy(asked[w].name)
                   /\ w \notin DOMAIN writing
                   /\ writing' = With(writing, w, asked[w].name)
                   /\ UNCHANGED boxes

StopWriting(w) == /\ w \in DOMAIN writing
                  /\ writing' = Without(writing, w)
                  /\ UNCHANGED boxes

Next == \E w \in Workers : \/ Create(w) \/ Remove(w)
                           \/ \E new \in Passwords : SetPassword(w, new)
                           \/ StartWriting(w) \/ StopWriting(w)

(* Requests come and go freely: asked is constrained by nothing. *)
Spec == Init /\ [][Next]_vars
=============================================================================
