---------------------------- MODULE MCTaskQueue ----------------------------
(* Instances of TaskQueue for TLC. *)
EXTENDS TaskQueue

(* Handlers return: every request is a short manager request. *)
ShortSpec == FairSpec /\ ShortHandlers
=============================================================================
