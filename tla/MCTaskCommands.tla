--------------------------- MODULE MCTaskCommands ---------------------------
(***************************************************************************)
(* Small instances of TaskCommands for TLC.  Tasks, idempotency keys and   *)
(* sessions are interchangeable.                                           *)
(***************************************************************************)
EXTENDS TaskCommands, TLC

Symmetry == Permutations(Tasks) \cup Permutations(Keys) \cup Permutations(Sessions)
=============================================================================
