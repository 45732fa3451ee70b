---------------------------- MODULE MCTaskNotify ----------------------------
(***************************************************************************)
(* Instances of TaskNotify.                                                *)
(***************************************************************************)
EXTENDS TaskNotify

CONSTANTS t1, t2, u1, u2

Symmetry == Permutations(Tasks) \cup Permutations(UserMsgs)

=============================================================================
