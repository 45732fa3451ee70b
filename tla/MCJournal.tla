------------------------------ MODULE MCJournal ------------------------------
(***************************************************************************)
(* Instances of Journal: a record is two bytes of body and a newline, so a *)
(* write can be cut inside the record, before its newline, or not at all.  *)
(***************************************************************************)
EXTENDS Journal

MCRecordLen == [o \in Op |-> 3]

=============================================================================
