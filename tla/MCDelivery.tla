----------------------------- MODULE MCDelivery -----------------------------
(* Instances of Delivery for TLC. *)
EXTENDS Delivery, TLC

CONSTANTS x, y

Lines == {<<x>>, <<y, y>>}
OneLine == {<<x>>}
Clean == {<<>>}
Dirty == {<<x>>}
LinesAndEmpty == {<<>>, <<y, y>>}

Symmetry == Permutations(Publishers) \cup Permutations(Subscribers)
=============================================================================
