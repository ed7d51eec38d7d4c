--------------------------- MODULE MCRestartRace ---------------------------
(* A small instance of RestartRace for TLC. *)
EXTENDS RestartRace, TLC

Symmetry == Permutations(Threads)
=============================================================================
