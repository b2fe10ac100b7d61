------------------------------- MODULE MCTfs -------------------------------
(* Instances of Tfs for TLC. *)
EXTENDS Tfs, TLC

CONSTANTS x, y

(* Without and with the Nul that ends what the broker writes. *)
PlainTexts == {<<x>>, <<x, y>>}
NulTexts == {<<x, Nul>>, <<y, y, Nul>>}

Symmetry == Permutations(Names \ LongNames)
=============================================================================
