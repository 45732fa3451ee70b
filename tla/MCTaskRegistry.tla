-------------------------- MODULE MCTaskRegistry ----------------------------
(* TaskRegistry for TLC: the commands and callers are model values.        *)
EXTENDS TaskRegistry, TLC

Symmetry == Permutations(Background)
=============================================================================
