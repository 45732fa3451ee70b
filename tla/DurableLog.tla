----------------------------- MODULE DurableLog -----------------------------
(***************************************************************************)
(* What a session journal promises its readers: the history read back      *)
(* grows at its end, one record at a time, and never changes otherwise; an *)
(* acknowledged record is in it.  Where the bytes are kept, plain or       *)
(* compressed, and which tasks are moving them, cannot be seen.            *)
(*                                                                         *)
(* damaged gives up the promise: it stands for the ways in which Journal   *)
(* shows the code to lose it.                                              *)
(***************************************************************************)
EXTENDS SequencesExt

CONSTANT Op

VARIABLES log, acked, damaged

vars == <<log, acked, damaged>>

Init == log = <<>> /\ acked = {} /\ damaged = FALSE

\* The history grows by one record.  A write that is not acknowledged may
\* land all the same.
Write ==
    /\ ~damaged /\ damaged' = FALSE
    /\ acked \subseteq acked'
    /\ LET grown == log'
       IN  /\ grown # <<>> /\ Last(grown) \in Op
           /\ log = Front(grown)
           /\ acked' \subseteq acked \cup {Last(grown)}

\* The promise is given up.
Damage == damaged' = TRUE

Next == Damage \/ Write

Spec == Init /\ [][Next]_vars

=============================================================================
