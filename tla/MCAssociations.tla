--------------------------- MODULE MCAssociations ---------------------------
(* A small instance of Associations for TLC: the connections are symmetric. *)
EXTENDS Associations, TLC

Symmetry == Permutations(Sessions)
=============================================================================
