------------------------ MODULE MCScheduleOperations ------------------------
(***************************************************************************)
(* Small instances of ScheduleOperations for TLC.  Tasks, windows and      *)
(* sessions are interchangeable, plans too; operations are used once.      *)
(***************************************************************************)
EXTENDS ScheduleOperations, TLC

Symmetry == Permutations(Tasks) \cup Permutations(Slots) \cup Permutations(Sessions)
            \cup Permutations(Plans) \cup Permutations(Ops)
=============================================================================
