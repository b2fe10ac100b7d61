------------------------------ MODULE MCBoxes ------------------------------
(* Instances of Boxes for TLC. *)
EXTENDS Boxes, TLC

(* States that differ only in what a closed handle or a freed inode still  *)
(* holds are one: both are overwritten before anything reads them.         *)
Observable ==
  <<[fs EXCEPT !.file = [h \in fs.opened |-> fs.file[h]],
               !.inode = [i \in fs.inodes |-> fs.inode[i]]],
    up, slots, box_size_lock, index, handle, pc, client>>

Symmetry == Permutations(Workers) \cup Permutations(Names)
=============================================================================
