----------------------------- MODULE MCAccounts -----------------------------
(* Small instances of Accounts for TLC. *)
EXTENDS Accounts, TLC

\* Connections, names, passwords and tokens are interchangeable.
Symmetry == Permutations(Sessions) \cup Permutations(Nuids) \cup Permutations(Passwords)
              \cup Permutations(Names) \cup Permutations(Tokens)
=============================================================================
