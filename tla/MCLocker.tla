------------------------------ MODULE MCLocker ------------------------------
(* Small instances of Locker for TLC. *)
EXTENDS Locker, TLC

\* The second persona's name continues the first one's.
OneShadow == {<<"a", "a_b">>}
OneUnderscore == {"a_b"}

Ghosts == {<<"a", "ghost7", 1>>, <<"a_b", "ghost7", 1>>, <<"a_b", "ghost7", 2>>, <<"a_b", "ghost9", 1>>}

\* Own, somebody else's, and the ghost that is also an alias.
Questions == {<<"a", "ghost7">>, <<"a", "ghost9">>, <<"a_b", "ghost9">>}

\* "a_b_tdttghost_7" < "a_b_tdttghost_9" < "a_tdttghost_7" < "a_tdttghost_9"
ByFileName == <<<<"a_b", "ghost7">>, <<"a_b", "ghost9">>, <<"a", "ghost7">>, <<"a", "ghost9">>>>

\* The ghost with tag 7 was raced on stretch 9.
OneTag == {<<"ghost7", "ghost9">>}

Symmetry == Permutations(Clients)
=============================================================================
