------------------------------ MODULE SeqPick ------------------------------
(***************************************************************************)
(* Picking the elements of a list that belong to a set, in their order:    *)
(* what a filter, a retain or a partition of a Vec leaves.  Defined by     *)
(* positions, so that it can be reasoned about for lists of any length.    *)
(***************************************************************************)
EXTENDS Naturals, Sequences, FiniteSets

\* The k-th smallest member of a finite set of numbers.
Rank(I, i) == Cardinality({j \in I : j <= i})
Nth(I, k) == CHOOSE i \in I : Rank(I, i) = k

PickedAt(s, P) == {i \in DOMAIN s : s[i] \in P}
Pick(s, P) == [k \in 1..Cardinality(PickedAt(s, P)) |-> s[Nth(PickedAt(s, P), k)]]

=============================================================================
