--------------------------- MODULE MCSessionFollow ---------------------------
(***************************************************************************)
(* Instances of SessionFollow: lines of two and of three bytes, so that a  *)
(* wrong anchor can be at a line boundary or inside a line.                *)
(***************************************************************************)
EXTENDS SessionFollow, TLC

CONSTANTS a, b

Symmetry == Permutations(Node)

MCRecordLen == [o \in Op |-> 2 + (o.n % 2)]

=============================================================================
